---- MODULE Spec2Model ----
(***************************************************************************)
(* Model of ggvtogpx-rs: the Geogrid-Viewer binary overlay decoder         *)
(* (src/src/ggv_bin.rs) and the Geodata accumulator (src/src/geodata.rs).  *)
(*                                                                         *)
(* Bytes are naturals 0..255, a slice &[u8] is a sequence of bytes and a   *)
(* cursor is the number of bytes consumed from the front of the slice.     *)
(* A String is the sequence of the Unicode scalar values of its chars.     *)
(* An f64 is its little-endian byte image (8 bytes).  A u32 is the record  *)
(* [hi, lo] of its two 16-bit halves.                                      *)
(***************************************************************************)
EXTENDS Integers, Sequences, FiniteSets, TLC

(***************************************************************************)
(* Bounds of the explored inputs.                                          *)
(***************************************************************************)
\* entries (version 2) or records (version 3/4) per generated file
MaxEntries == 2
\* points declared by a generated line entry
MaxPoints == 2
\* payload length of the texts fed to the Text Decoder on its own
MaxTextLen == 4
MaxDebug == 3

(***************************************************************************)
(* Program constants.                                                      *)
(***************************************************************************)
U16_MAX == 65535
MAGIC_WINDOW == 22
DEBUG_BIN == 2
DEBUG_GEODATA == 3
MAGIC_SKIP == 23
BMP_DIB_SIZE == 40
BMP_FILE_HEADER == 14
NUL == 0
CR == 13
LF == 10
SPACE == 32

\* f64::NAN, little-endian: 0x7ff8000000000000
NAN == <<0, 0, 0, 0, 0, 0, 248, 127>>

\* b'\t', b';', b'='
TAB == 9
SEMICOLON == 59
EQUALS == 61

\* the starting values of get_bounds, in degrees
MIN_LAT == 0
MAX_LAT == 90
MIN_LON == -180
MAX_LON == 180

\* "DOMGVCRD Ovlfile V"
MAGIC_TAG == <<68, 79, 77, 71, 86, 67, 82, 68, 32, 79, 118, 108, 102, 105, 108, 101, 32, 86>>
\* ".0:\0"
MAGIC_TAIL == <<46, 48, 58, 0>>
\* "2", "3", "4"
MAGIC_DIGITS == <<50, 51, 52>>
\* "BM"
BM == <<66, 77>>

(***************************************************************************)
(* error.rs: CustomError keeps only a message; the message is modelled as  *)
(* the sequence of the fragments whose concatenation is the string.        *)
(***************************************************************************)
NoErr == [level |-> "None", kind |-> "None", message |-> <<>>]

\* ParseError::from_error_kind: an empty message; the level is nom's
\* Err::Error or Err::Failure, the kind nom's ErrorKind (not kept by
\* CustomError, kept here to name the condition that was raised).
from_error_kind(level, kind) == [level |-> level, kind |-> kind, message |-> <<>>]

\* ParseError::append
append(kind, other) == [other EXCEPT !.message = @ \o <<"; Error ", kind>>]

\* ContextError::add_context
add_context(ctx, other) ==
    IF other.message = <<>>
    THEN [other EXCEPT !.message = <<ctx>>]
    ELSE [other EXCEPT !.message = @ \o <<", ", ctx>>]

(***************************************************************************)
(* Parser results: nom's IResult over the slice b, with the cursor in      *)
(* place of the remaining slice.                                           *)
(***************************************************************************)
Ok(p, v) == [ok |-> TRUE, pos |-> p, val |-> v, err |-> NoErr]
Fail(p, e) == [ok |-> FALSE, pos |-> p, val |-> <<>>, err |-> e]

\* the `?` operator: a failure is returned as it is, a success goes on; the
\* result r is taken once
and_then(r, F(_)) == CHOOSE y \in {IF x.ok THEN F(x) ELSE x : x \in {r}} : TRUE

\* nom::error::context(descr, parser)
context(descr, r) == IF r.ok THEN r ELSE Fail(r.pos, add_context(descr, r.err))

Remaining(b, p) == Len(b) - p

\* take(n) that reads on past the end of the input (as zeros)
take_unchecked(b, p, n) ==
    Ok(p + n, [i \in 1..n |-> IF p + i <= Len(b) THEN b[p + i] ELSE 0])

\* nom::bytes::complete::take(n)
take(b, p, n) ==
    IF Remaining(b, p) >= n
    THEN Ok(p + n, SubSeq(b, p + 1, p + n))
    ELSE Fail(p, from_error_kind("Error", "Eof"))

\* nom::bytes::complete::tag(t)
tag(b, p, t) ==
    IF Remaining(b, p) >= Len(t) /\ SubSeq(b, p + 1, p + Len(t)) = t
    THEN Ok(p + Len(t), t)
    ELSE Fail(p, from_error_kind("Error", "Tag"))

\* little-endian integers
Le16(bytes) == bytes[1] + 256 * bytes[2]
Le32(bytes) == [lo |-> Le16(SubSeq(bytes, 1, 2)), hi |-> Le16(SubSeq(bytes, 3, 4))]

U32(n) == [lo |-> n % 65536, hi |-> n \div 65536]
U32IsZero(v) == v.hi = 0 /\ v.lo = 0
U32Gt(v, n) == v.hi > 0 \/ v.lo > n
U32Dec(v) == IF v.lo > 0 THEN [v EXCEPT !.lo = @ - 1] ELSE [lo |-> 65535, hi |-> v.hi - 1]
\* to_le_bytes of a u16 and of a u32
Le16Bytes(n) == <<n % 256, n \div 256>>
Le32Bytes(v) == Le16Bytes(v.lo) \o Le16Bytes(v.hi)

\* nom::number::complete::le_u16, le_u32, le_f64
le_u16(b, p) == and_then(take(b, p, 2), LAMBDA r : Ok(r.pos, Le16(r.val)))
le_u32(b, p) == and_then(take(b, p, 4), LAMBDA r : Ok(r.pos, Le32(r.val)))
le_f64(b, p) == take(b, p, 8)

\* ggv_bin_read_bytes
ggv_bin_read_bytes(b, p, len, descr) == context(descr, take(b, p, len))

\* ggv_bin_read16
ggv_bin_read16(b, p, descr) == context(descr, le_u16(b, p))

\* ggv_bin_read32
ggv_bin_read32(b, p, descr) == context(descr, le_u32(b, p))

\* ggv_bin_read_double
ggv_bin_read_double(b, p, descr) == context(descr, le_f64(b, p))

(***************************************************************************)
(* Text Decoder.                                                           *)
(***************************************************************************)
\* a cut that keeps the whole payload
take_till_never(s) == s

\* take_till(|c| c == b'\0'): the bytes before the first NUL
RECURSIVE take_till_nul(_)
take_till_nul(s) ==
    IF s = <<>> \/ Head(s) = NUL THEN <<>> ELSE <<Head(s)>> \o take_till_nul(Tail(s))

\* encoding_rs::mem::decode_latin1: byte x becomes the char U+00xx
decode_latin1(bytes) == [i \in 1..Len(bytes) |-> bytes[i]]

\* str::replace("\r\n", " ")
RECURSIVE replace_crlf(_)
replace_crlf(s) ==
    IF s = <<>> THEN <<>>
    ELSE IF Len(s) >= 2 /\ s[1] = CR /\ s[2] = LF
         THEN <<SPACE>> \o replace_crlf(SubSeq(s, 3, Len(s)))
         ELSE <<Head(s)>> \o replace_crlf(Tail(s))

\* str::split(' '): the pieces between the spaces (one more than the spaces)
split_cons(c, rest) ==
    IF c = SPACE THEN << <<>> >> \o rest
    ELSE << <<c>> \o Head(rest) >> \o Tail(rest)

RECURSIVE split_space(_)
split_space(s) ==
    IF s = <<>> THEN << <<>> >> ELSE split_cons(Head(s), split_space(Tail(s)))

\* .filter(|s| !s.is_empty())
non_empty(pieces) == SelectSeq(pieces, LAMBDA x : x # <<>>)

\* .join(" ")
RECURSIVE join_space(_)
join_space(pieces) ==
    IF pieces = <<>> THEN <<>>
    ELSE IF Len(pieces) = 1 THEN Head(pieces)
    ELSE Head(pieces) \o <<SPACE>> \o join_space(Tail(pieces))

\* char::is_control for U+0000..U+00FF: general category Cc
is_control(c) == c <= 31 \/ (c >= 127 /\ c <= 159)

\* .chars().filter(|&c| !c.is_control()).collect()
strip_control(s) == SelectSeq(s, LAMBDA c : ~is_control(c))

\* the normalisation shared by ggv_bin_read_text16 and ggv_bin_read_text32
decode_text_unsplit(payload) ==
    strip_control(replace_crlf(decode_latin1(take_till_nul(payload))))

\* the pipeline of both text readers
decode_text(payload) ==
    strip_control(join_space(non_empty(split_space(replace_crlf(
        decode_latin1(take_till_nul(payload)))))))

\* ggv_bin_read_text16
ggv_bin_read_text16(b, p, descr) ==
    and_then(ggv_bin_read16(b, p, descr), LAMBDA l :
    and_then(ggv_bin_read_bytes(b, l.pos, l.val, descr), LAMBDA d :
    Ok(d.pos, decode_text(d.val))))

\* ggv_bin_read_text32 without the ceiling: the length goes on as the usize
\* it was cast to, its low 16 bits where that is all the payload read keeps
ggv_bin_read_text32_unbounded(b, p, descr) ==
    and_then(ggv_bin_read32(b, p, descr), LAMBDA l :
    and_then(ggv_bin_read_bytes(b, l.pos, l.val.lo, descr), LAMBDA d :
    Ok(d.pos, decode_text(d.val))))

\* ggv_bin_read_text32
ggv_bin_read_text32(b, p, descr) ==
    and_then(ggv_bin_read32(b, p, descr), LAMBDA l :
    IF U32Gt(l.val, U16_MAX)
    THEN Fail(l.pos, from_error_kind("Failure", "TooLarge"))
    ELSE and_then(ggv_bin_read_bytes(b, l.pos, l.val.lo, descr), LAMBDA d :
         Ok(d.pos, decode_text(d.val))))

(***************************************************************************)
(* Magic/Version Detector.                                                 *)
(***************************************************************************)
\* alt((tag("2"), tag("3"), tag("4")))
alt_digit(b, p) ==
    IF \E i \in 1..Len(MAGIC_DIGITS) : tag(b, p, <<MAGIC_DIGITS[i]>>).ok
    THEN Ok(p + 1, SubSeq(b, p + 1, p + 1))
    ELSE Fail(p, append("Alt", from_error_kind("Error", "Tag")))

\* ggv_bin_parse_magic matching only the 22 bytes of the window: the last
\* literal without its NUL
ggv_bin_parse_magic_window(b) ==
    and_then(context("magic", take(b, 0, MAGIC_WINDOW)), LAMBDA window :
    context("magic",
        and_then(tag(b, 0, MAGIC_TAG), LAMBDA t1 :
        and_then(alt_digit(b, t1.pos), LAMBDA t2 :
        and_then(tag(b, t2.pos, SubSeq(MAGIC_TAIL, 1, 3)), LAMBDA t3 :
        Ok(t3.pos, <<t2.val[1] - 48, decode_latin1(window.val)>>))))))

\* ggv_bin_parse_magic: the value is <<version, raw header text>>
ggv_bin_parse_magic(b) ==
    and_then(context("magic", take(b, 0, MAGIC_WINDOW)), LAMBDA window :
    context("magic",
        and_then(tag(b, 0, MAGIC_TAG), LAMBDA t1 :
        and_then(alt_digit(b, t1.pos), LAMBDA t2 :
        and_then(tag(b, t2.pos, MAGIC_TAIL), LAMBDA t3 :
        Ok(t3.pos, <<t2.val[1] - 48, decode_latin1(window.val)>>))))))

(***************************************************************************)
(* geodata.rs: Waypoint, WaypointList, Geodata.                            *)
(***************************************************************************)
\* Waypoint::new
Waypoint_new == [latitude |-> NAN, longitude |-> NAN, elevation |-> NAN, name |-> <<>>]
with_lat(wp, lat) == [wp EXCEPT !.latitude = lat]
with_lon(wp, lon) == [wp EXCEPT !.longitude = lon]
with_name(wp, name) == [wp EXCEPT !.name = name]

\* WaypointList::new (Default)
WaypointList_new == [waypoints |-> <<>>, name |-> <<>>]

\* a list that takes each new waypoint at its head
wl_add_waypoint_first(wl, wp) == [wl EXCEPT !.waypoints = <<wp>> \o @]
wl_add_waypoint(wl, wp) == [wl EXCEPT !.waypoints = Append(@, wp)]
wl_set_name(wl, name) == [wl EXCEPT !.name = name]

\* a Geodata whose construction depends on the debug level
Geodata_new_by_level(debug) ==
    [debug |-> debug, waypoints |-> IF debug >= DEBUG_GEODATA THEN <<>> ELSE <<[waypoints |-> <<>>, name |-> <<>>]>>,
     routes |-> <<>>, tracks |-> <<>>, data |-> <<>>]

\* Geodata::new().with_debug(debug); data holds the named binary resources
Geodata_new(debug) ==
    [debug |-> debug, waypoints |-> <<WaypointList_new>>, routes |-> <<>>,
     tracks |-> <<>>, data |-> <<>>]

\* Geodata::add_waypoint
add_waypoint(g, wp) ==
    IF Len(g.waypoints) = 0
    THEN [g EXCEPT !.waypoints = <<wl_add_waypoint(WaypointList_new, wp)>>]
    ELSE [g EXCEPT !.waypoints[1] = wl_add_waypoint(@, wp)]

\* a Geodata that files a route with the tracks
add_route_to_tracks(g, route) == [g EXCEPT !.tracks = Append(@, route)]

\* Geodata::add_route
add_route(g, route) == [g EXCEPT !.routes = Append(@, route)]

\* Geodata::add_track
add_track(g, track) == [g EXCEPT !.tracks = Append(@, track)]

\* WaypointList::len
wl_len(wl) == Len(wl.waypoints)

\* Geodata::waypoints_len
waypoints_len(g) == IF Len(g.waypoints) > 0 THEN wl_len(g.waypoints[1]) ELSE 0

\* vec![self.waypoints_vec(), self.tracks(), self.routes()], and its waypoints
\* in the order of the three nested loops
container(g) == g.waypoints \o g.tracks \o g.routes
RECURSIVE all_waypoints(_)
all_waypoints(lists) ==
    IF lists = <<>> THEN <<>> ELSE Head(lists).waypoints \o all_waypoints(Tail(lists))

\* the four comparisons of get_bounds on one waypoint
widen(b, w) ==
    [min |-> [b.min EXCEPT !.latitude = IF w.latitude < @ THEN w.latitude ELSE @,
                           !.longitude = IF w.longitude < @ THEN w.longitude ELSE @],
     max |-> [b.max EXCEPT !.latitude = IF w.latitude > @ THEN w.latitude ELSE @,
                           !.longitude = IF w.longitude > @ THEN w.longitude ELSE @]]
RECURSIVE widen_all(_, _)
widen_all(b, wps) == IF wps = <<>> THEN b ELSE widen_all(widen(b, Head(wps)), Tail(wps))

\* Geodata::get_bounds: <<>> is None, <<b>> is Some((b.min, b.max))
get_bounds(g) ==
    IF Len(all_waypoints(container(g))) = 0 THEN <<>>
    ELSE <<widen_all([min |-> with_lon(with_lat(Waypoint_new, MAX_LAT), MAX_LON),
                      max |-> with_lon(with_lat(Waypoint_new, MIN_LAT), MIN_LON)],
                     all_waypoints(container(g)))>>

\* Geodata::add_data: attach a named binary resource
add_data(g, name, bytes) == [g EXCEPT !.data = Append(@, [name |-> name, bytes |-> bytes])]

(***************************************************************************)
(* A run of fields read one after the other, each with `?`: the first      *)
(* failure ends the run.  A field is <<kind, descr>>; the value of the run *)
(* is the sequence of the values read.                                     *)
(***************************************************************************)
read_field(b, p, f) ==
    CASE f[1] = "u16" -> ggv_bin_read16(b, p, f[2])
      [] f[1] = "u32" -> ggv_bin_read32(b, p, f[2])
      [] f[1] = "f64" -> ggv_bin_read_double(b, p, f[2])
      [] f[1] = "text16" -> ggv_bin_read_text16(b, p, f[2])
      [] f[1] = "text32" -> ggv_bin_read_text32(b, p, f[2])
      [] f[1] = "bytes8" -> ggv_bin_read_bytes(b, p, 8, f[2])
      [] f[1] = "bytes20" -> ggv_bin_read_bytes(b, p, 20, f[2])

RECURSIVE read_fields_from(_, _, _, _)
read_fields_from(b, p, fields, vals) ==
    IF fields = <<>> THEN Ok(p, vals)
    ELSE and_then(read_field(b, p, Head(fields)), LAMBDA r :
         read_fields_from(b, r.pos, Tail(fields), Append(vals, r.val)))

read_fields(b, p, fields) == read_fields_from(b, p, fields, <<>>)

(***************************************************************************)
(* Bitmap Extractor.                                                       *)
(***************************************************************************)
BmpInfoFields ==
    << <<"u32", "bmp width">>, <<"u32", "bmp height">>, <<"u16", "bmp color plane">>,
       <<"u16", "bmp pixel bits">>, <<"u32", "bmp compression">>,
       <<"u32", "bmp image size">>, <<"u32", "bmp x res">>, <<"u32", "bmp y res">>,
       <<"u32", "bmp num col">>, <<"u32", "bmp imp col">> >>

\* a colour table up to and including 16 bits per pixel
bmp_offset_through_16(bmp_pixel_bits) ==
    IF bmp_pixel_bits > 16
    THEN BMP_FILE_HEADER + BMP_DIB_SIZE
    ELSE BMP_FILE_HEADER + BMP_DIB_SIZE + (2 ^ bmp_pixel_bits) * 4

\* 14 + bmp_dib_size (+ 2u32.pow(bmp_pixel_bits) * 4 below 16 bpp)
bmp_offset(bmp_pixel_bits) ==
    IF bmp_pixel_bits >= 16
    THEN BMP_FILE_HEADER + BMP_DIB_SIZE
    ELSE BMP_FILE_HEADER + BMP_DIB_SIZE + (2 ^ bmp_pixel_bits) * 4

\* the blob handed on without the file header
bmp_file_headerless(bitmap, bmp_pixel_bits) == bitmap

\* the 14-byte file header followed by the blob
bmp_file(bitmap, bmp_pixel_bits) ==
    BM \o Le32Bytes(U32(Len(bitmap) + BMP_FILE_HEADER)) \o Le16Bytes(0) \o Le16Bytes(0)
       \o Le32Bytes(U32(bmp_offset(bmp_pixel_bits))) \o bitmap

\* an extractor that takes an info header of any declared size
ggv_bin_write_bitmap_any_size(bitmap, g) ==
    and_then(ggv_bin_read32(bitmap, 0, "bmp dib size"), LAMBDA dib :
    and_then(read_fields(bitmap, dib.pos, BmpInfoFields), LAMBDA info :
    Ok(0, add_data(g, "bmp", bmp_file(bitmap, info.val[4])))))

\* ggv_bin_write_bitmap: the value is the Geodata after the call
ggv_bin_write_bitmap(bitmap, g) ==
    and_then(ggv_bin_read32(bitmap, 0, "bmp dib size"), LAMBDA dib :
    IF dib.val # U32(BMP_DIB_SIZE) THEN Ok(0, g)
    ELSE and_then(read_fields(bitmap, dib.pos, BmpInfoFields), LAMBDA info :
         Ok(0, add_data(g, "bmp", bmp_file(bitmap, info.val[4])))))

\* Result::unwrap_or
unwrap_or(r, default) == IF r.ok THEN r.val ELSE default

\* `let _ = ..`: the result w is dropped and the entry goes on with the
\* Geodata as w left it; err keeps the error that was raised and dropped
dropped(p, w, g) == [ok |-> TRUE, pos |-> p, val |-> unwrap_or(w, g), err |-> w.err]

\* `let _ = ggv_bin_write_bitmap(bmp_data, geodata)`
forward_bitmap(p, bmp_data, g) == dropped(p, ggv_bin_write_bitmap(bmp_data, g), g)

(***************************************************************************)
(* OVL version 2.                                                          *)
(***************************************************************************)
V2TextFields ==
    << <<"u16", "text color">>, <<"u16", "text size">>, <<"u16", "text trans">>,
       <<"u16", "text font">>, <<"u16", "text angle">>, <<"f64", "text lon">>,
       <<"f64", "text lat">>, <<"text16", "text label">> >>

V2LineFields ==
    << <<"u16", "line color">>, <<"u16", "line width">>, <<"u16", "line type">>,
       <<"u16", "line points">> >>

V2PointFields == << <<"f64", "text lon">>, <<"f64", "text lat">> >>

V2GeomFields ==
    << <<"u16", "geom color">>, <<"u16", "geom prop1">>, <<"u16", "geom prop2">>,
       <<"u16", "geom angle">>, <<"u16", "geom stroke">>, <<"u16", "geom area">>,
       <<"f64", "geom lon">>, <<"f64", "geom lat">> >>

V2BmpFields ==
    << <<"u16", "bmp color">>, <<"u16", "bmp prop1">>, <<"u16", "bmp prop2">>,
       <<"u16", "bmp prop3">>, <<"f64", "bmp lon">>, <<"f64", "bmp lat">>,
       <<"u32", "bmp len">> >>

\* the two doubles taken the other way round
new_point_swapped(lat, lon) == with_lon(with_lat(Waypoint_new, lon), lat)

\* Waypoint::new().with_lat(lat).with_lon(lon)
new_point(lat, lon) == with_lon(with_lat(Waypoint_new, lat), lon)

\* a new WaypointList, named when the name is not empty
named_list(name) ==
    IF name # <<>> THEN wl_set_name(WaypointList_new, name) ELSE WaypointList_new

\* for _ in 1..=line_points: the value is the WaypointList after the loop
RECURSIVE v2_read_points(_, _, _, _)
v2_read_points(b, p, n, wl) ==
    IF n = 0 THEN Ok(p, wl)
    ELSE and_then(read_fields(b, p, V2PointFields), LAMBDA r :
         v2_read_points(b, r.pos, n - 1, wl_add_waypoint(wl, new_point(r.val[2], r.val[1]))))

\* a shape kept as a waypoint without a position
discard_as_waypoint(p, g) == Ok(p, add_waypoint(g, Waypoint_new))

\* the end of the 5 | 6 | 7 arm: the fields are read and nothing is emitted
discard(p, g) == Ok(p, g)

\* the default arm going on to the next entry
unsupported_type_skipped(p, g) == Ok(p, g)

\* the default arm of the match on entry_type: "Unsupported type", Failure
unsupported_type(p, g) == Fail(p, from_error_kind("Failure", "Tag"))

\* ggv_bin_read_v2_entries: the value is the Geodata after the entry.  Every
\* entry mutates the Geodata after its last read, so a failed entry leaves it
\* as it was.
ggv_bin_read_v2_entries(b, p, entry_type, track_name, g) ==
    CASE entry_type = 2 ->
           and_then(read_fields(b, p, V2TextFields), LAMBDA r :
           Ok(r.pos, add_waypoint(g, with_name(new_point(r.val[7], r.val[6]), r.val[8]))))
      [] entry_type \in {3, 4} ->
           and_then(read_fields(b, p, V2LineFields), LAMBDA r :
           and_then(v2_read_points(b, r.pos, r.val[4], named_list(track_name)), LAMBDA pts :
           Ok(pts.pos, add_track(g, pts.val))))
      [] entry_type \in {5, 6, 7} ->
           and_then(read_fields(b, p, V2GeomFields), LAMBDA r : discard(r.pos, g))
      [] entry_type = 9 ->
           and_then(read_fields(b, p, V2BmpFields), LAMBDA r :
           IF U32Gt(r.val[7], U16_MAX)
           THEN Fail(r.pos, from_error_kind("Failure", "TooLarge"))
           ELSE and_then(ggv_bin_read_bytes(b, r.pos, r.val[7].lo, "bmp data"), LAMBDA d :
                forward_bitmap(d.pos, d.val, g)))
      [] OTHER -> unsupported_type(p, g)

\* header_len - 4 on u16: an arithmetic panic with overflow checks (debug
\* builds), two's complement wrap-around without (release builds)
Panic == [level |-> "Panic", kind |-> "Overflow", message |-> <<>>]

\* ggv_bin_read_header_v2: the value is the map name
ggv_bin_read_header_v2(b, p, overflow_checks) ==
    and_then(ggv_bin_read16(b, p, "map name len"), LAMBDA l :
    IF l.val > 0
    THEN and_then(take(b, l.pos, 4), LAMBDA sub :
         IF l.val < 4 /\ overflow_checks THEN Fail(sub.pos, Panic)
         ELSE and_then(take(b, sub.pos, (l.val + 65536 - 4) % 65536), LAMBDA name :
              Ok(name.pos, decode_latin1(take_till_nul(name.val)))))
    ELSE Ok(l.pos, <<>>))

V2EntryFields ==
    << <<"u16", "entry type">>, <<"u16", "entry group">>, <<"u16", "entry zoom">>,
       <<"u16", "entry subtype">> >>

\* a track name read whatever entry_subtype is
v2_track_name_always(b, p, entry_subtype) == ggv_bin_read_text32(b, p, "track name")

\* the track name of an entry: read unless entry_subtype is 1
v2_track_name(b, p, entry_subtype) ==
    IF entry_subtype # 1 THEN ggv_bin_read_text32(b, p, "track name") ELSE Ok(p, <<>>)

\* an iteration that decodes its entry and leaves it on the slice
v2_entry_left_on_slice(b, p, g) ==
    and_then(read_fields(b, p, V2EntryFields), LAMBDA h :
    and_then(v2_track_name(b, h.pos, h.val[4]), LAMBDA tn :
    and_then(ggv_bin_read_v2_entries(b, tn.pos, h.val[1], tn.val, g), LAMBDA r : Ok(p, g))))

\* one iteration of the `while buf.len() > 0` loop of ggv_bin_read_v2
v2_entry(b, p, g) ==
    and_then(read_fields(b, p, V2EntryFields), LAMBDA h :
    and_then(v2_track_name(b, h.pos, h.val[4]), LAMBDA tn :
    ggv_bin_read_v2_entries(b, tn.pos, h.val[1], tn.val, g)))

(***************************************************************************)
(* OVL version 3.0 and 4.0.                                                *)
(***************************************************************************)
V34HeaderFields ==
    << <<"bytes8", "unknown">>, <<"u32", "num labels">>, <<"u32", "num records">>,
       <<"text16", "text label">>, <<"u16", "unknown">>, <<"u16", "unknown">>,
       <<"u16", "unknown">>, <<"u16", "header len">>, <<"u16", "unknown">>,
       <<"u16", "unknown">> >>

\* the map-name block: header_len bytes, of which 4 are a sub-header
v34_map_name(b, p, header_len) ==
    IF header_len > 0
    THEN and_then(ggv_bin_read_bytes(b, p, header_len, "map name"), LAMBDA name :
         IF take(name.val, 0, 4).ok THEN name ELSE Fail(name.pos, take(name.val, 0, 4).err))
    ELSE Ok(p, <<>>)

\* ggv_bin_read_header_v34: the value is <<label_count, record_count>>
ggv_bin_read_header_v34(b, p) ==
    and_then(read_fields(b, p, V34HeaderFields), LAMBDA r :
    and_then(v34_map_name(b, r.pos, r.val[8]), LAMBDA name :
    Ok(name.pos, <<r.val[2], r.val[3]>>)))

V34LabelFields ==
    << <<"bytes8", "label header">>, <<"bytes20", "label number">>,
       <<"text16", "label text">>, <<"u16", "label flag1">>, <<"u16", "label flag2">> >>

\* a label reader that hands back the slice it was given
ggv_bin_read_label_v34_in_place(b, p) ==
    and_then(read_fields(b, p, V34LabelFields), LAMBDA r : Ok(p, r.val))

\* ggv_bin_read_label_v34
ggv_bin_read_label_v34(b, p) == read_fields(b, p, V34LabelFields)

V34CommonFields ==
    << <<"u16", "entry group">>, <<"u16", "entry prop2">>, <<"u16", "entry prop3">>,
       <<"u16", "entry prop4">>, <<"u16", "entry prop5">>, <<"u16", "entry prop6">>,
       <<"u16", "entry prop7">>, <<"u16", "entry prop8">>, <<"u16", "entry zoom">>,
       <<"u16", "entry prop10">>, <<"text16", "entry txt">>, <<"u16", "entry type1">> >>

\* an "entry object" text read whatever its type marker is
v34_object_always(b, p, marker) == ggv_bin_read_text32(b, p, "entry object")

\* an "entry object" text, read when its type marker is not 1
v34_object(b, p, marker) ==
    IF marker # 1 THEN ggv_bin_read_text32(b, p, "entry object") ELSE Ok(p, <<>>)

\* ggv_bin_read_common_v34: the value is entry_text
ggv_bin_read_common_v34(b, p) ==
    and_then(read_fields(b, p, V34CommonFields), LAMBDA r :
    and_then(v34_object(b, r.pos, r.val[12]), LAMBDA o1 :
    and_then(ggv_bin_read16(b, o1.pos, "entry type2"), LAMBDA t2 :
    and_then(v34_object(b, t2.pos, t2.val), LAMBDA o2 :
    Ok(o2.pos, r.val[11])))))

V34TextFields ==
    << <<"u16", "text prop1">>, <<"u32", "text prop2">>, <<"u16", "text prop3">>,
       <<"u32", "text prop4">>, <<"u16", "text ltype">>, <<"u16", "text angle">>,
       <<"u16", "text size">>, <<"u16", "text area">>, <<"f64", "text lon">>,
       <<"f64", "text lat">>, <<"f64", "text unk">>, <<"text16", "text label">> >>

V34LineFields ==
    << <<"u16", "line prop1">>, <<"u32", "line prop2">>, <<"u16", "line prop3">>,
       <<"u32", "line color">>, <<"u16", "line size">>, <<"u16", "line stroke">>,
       <<"u16", "line points">> >>

V34PointFields == << <<"f64", "line lon">>, <<"f64", "line lat">>, <<"f64", "line unk">> >>

V34CircleFields ==
    << <<"u16", "circle prop1">>, <<"u32", "circle prop2">>, <<"u16", "circle prop3">>,
       <<"u32", "circle color">>, <<"u32", "circle prop5">>, <<"u32", "circle prop6">>,
       <<"u16", "circle ltype">>, <<"u16", "circle angle">>, <<"u16", "circle size">>,
       <<"u16", "circle area">>, <<"f64", "circle lon">>, <<"f64", "circle lat">>,
       <<"f64", "circle unk">> >>

V34BmpFields ==
    << <<"u16", "bmp prop1">>, <<"u32", "bmp prop2">>, <<"u16", "bmp prop3">>,
       <<"u32", "bmp prop4">>, <<"u32", "bmp prop5">>, <<"u32", "bmp prop6">>,
       <<"f64", "bmp lon">>, <<"f64", "bmp lat">>, <<"f64", "bmp unk">>,
       <<"u32", "bmp len">> >>

\* the loop stopping one point short of line_points
RECURSIVE v34_read_points_short(_, _, _, _)
v34_read_points_short(b, p, n, track) ==
    IF n <= 1 THEN Ok(p, track)
    ELSE and_then(read_fields(b, p, V34PointFields), LAMBDA r :
         v34_read_points_short(b, r.pos, n - 1,
                               wl_add_waypoint(track, new_point(r.val[2], r.val[1]))))

\* for _ in 0..line_points: the value is the track after the loop
RECURSIVE v34_read_points(_, _, _, _)
v34_read_points(b, p, n, track) ==
    IF n = 0 THEN Ok(p, track)
    ELSE and_then(read_fields(b, p, V34PointFields), LAMBDA r :
         v34_read_points(b, r.pos, n - 1, wl_add_waypoint(track, new_point(r.val[2], r.val[1]))))

\* no `line pad` field for any type
v34_line_pad_none(b, p, entry_type) == Ok(p, 0)

\* the `line pad` field of a 0x04 record
v34_line_pad(b, p, entry_type) ==
    IF entry_type = 4 THEN ggv_bin_read16(b, p, "line pad") ELSE Ok(p, 0)

\* the match of ggv_bin_read_record_v34: the value is the Geodata after it
v34_record_body(b, p, entry_type, label, g) ==
    CASE entry_type = 2 ->
           and_then(read_fields(b, p, V34TextFields), LAMBDA r :
           Ok(r.pos, add_waypoint(g, with_name(new_point(r.val[10], r.val[9]), r.val[12]))))
      [] entry_type \in {3, 4, 23} ->
           and_then(read_fields(b, p, V34LineFields), LAMBDA r :
           and_then(v34_line_pad(b, r.pos, entry_type), LAMBDA pad :
           and_then(v34_read_points(b, pad.pos, r.val[7], named_list(label)), LAMBDA pts :
           Ok(pts.pos, add_track(g, pts.val)))))
      [] entry_type \in {5, 6, 7} ->
           and_then(read_fields(b, p, V34CircleFields), LAMBDA r : discard(r.pos, g))
      [] entry_type = 9 ->
           and_then(read_fields(b, p, V34BmpFields), LAMBDA r :
           IF U32Gt(r.val[10], U16_MAX)
           THEN Fail(r.pos, from_error_kind("Failure", "TooLarge"))
           ELSE and_then(ggv_bin_read16(b, r.pos, "bmp prop"), LAMBDA prop :
                and_then(ggv_bin_read_bytes(b, prop.pos, r.val[10].lo, "bmp data"), LAMBDA d :
                forward_bitmap(d.pos, d.val, g))))
      [] OTHER -> unsupported_type(p, g)

\* ggv_bin_read_record_v34
ggv_bin_read_record_v34(b, p, g) ==
    and_then(ggv_bin_read16(b, p, "entry type"), LAMBDA t :
    and_then(ggv_bin_read_common_v34(b, t.pos), LAMBDA c :
    v34_record_body(b, c.pos, t.val, c.val, g)))

(***************************************************************************)
(* The explored inputs: files written field by field in the order the      *)
(* decoders read them, and every prefix of such a file.                    *)
(***************************************************************************)
Zeros(n) == [i \in 1..n |-> 0]
Prefixes(b) == {SubSeq(b, 1, k) : k \in 0..Len(b)}

\* 13.0 and 52.0 as little-endian f64, and a third value for the padding double
F64_13 == <<0, 0, 0, 0, 0, 0, 42, 64>>
F64_52 == <<0, 0, 0, 0, 0, 0, 74, 64>>
F64_1 == <<0, 0, 0, 0, 0, 0, 240, 63>>

EncText16(text) == Le16Bytes(Len(text)) \o text
EncText32(text) == Le32Bytes(U32(Len(text))) \o text

\* the magic with version digit d and last byte z
MagicBytes(d, z) == MAGIC_TAG \o <<d>> \o <<46, 48, 58, z>>
Magic(v) == MagicBytes(48 + v, NUL)

\* inputs of probe, and of read where the version is not detected
MagicInputs ==
    UNION {Prefixes(MagicBytes(d, NUL) \o <<7>>) : d \in 49..53}
    \cup {MagicBytes(d, z) : d \in {50, 51, 52}, z \in {1, 48}}
    \cup {<<69>> \o Tail(Magic(2)), Zeros(MAGIC_SKIP)}

\* texts of generated files: "B", "T", "Berlin"
TextB == <<66>>
TextT == <<84>>
TextBerlin == <<66, 101, 114, 108, 105, 110>>

\* the i-th double of a family e: the doubles of one file all differ
Coord(i, e) == <<i, 0, 0, 0, 0, 0, e, 64>>

\* version 2: the four entry fields, then the track name unless subtype is 1
V2Head(entry_type, entry_subtype, name32) ==
    Le16Bytes(entry_type) \o Zeros(4) \o Le16Bytes(entry_subtype) \o name32

\* n points on the wire, the i-th with longitude Coord(i, 42), latitude
\* Coord(i, 74) and, where the points have three doubles, Coord(i, 8)
RECURSIVE Points(_, _)
Points(n, doubles) ==
    IF n = 0 THEN <<>>
    ELSE Points(n - 1, doubles) \o Coord(n, 42) \o Coord(n, 74)
            \o (IF doubles = 3 THEN Coord(n, 8) ELSE <<>>)

V2TextAt(lon, lat, label) == Zeros(10) \o lon \o lat \o EncText16(label)
V2Text(label) == V2TextAt(F64_13, F64_52, label)
V2Line(n) == Zeros(6) \o Le16Bytes(n) \o Points(n, 2)
V2Geom == Zeros(12) \o F64_13 \o F64_52
V2Bmp(len32, blob) == Zeros(8) \o F64_13 \o F64_52 \o len32 \o blob

\* blobs: a 40-byte info header with bpp bits per pixel and extra pixel
\* bytes, a header size other than 40, a header cut short
Dib(size, bpp, extra) ==
    Le32Bytes(U32(size)) \o Zeros(10) \o Le16Bytes(bpp) \o Zeros(24 + extra)
Blobs ==
    {Dib(BMP_DIB_SIZE, 8, 0), Dib(BMP_DIB_SIZE, 24, 1), SubSeq(Dib(BMP_DIB_SIZE, 8, 0), 1, 12),
     SubSeq(Dib(12, 8, 0), 1, 12), <<40, 0>>}

Len32(n) == Le32Bytes(U32(n))

\* every kind of entry that decodes
V2GoodEntries ==
    {V2Head(2, 1, <<>>) \o V2Text(TextB), V2Head(2, 0, EncText32(TextT)) \o V2Text(TextB)}
    \cup {V2Head(3, 0, EncText32(TextT)) \o V2Line(n) : n \in 0..MaxPoints}
    \cup {V2Head(4, 1, <<>>) \o V2Line(1), V2Head(3, 0, EncText32(<<>>)) \o V2Line(1)}
    \cup {V2Head(t, 1, <<>>) \o V2Geom : t \in {5, 6, 7}}
    \cup {V2Head(9, 1, <<>>) \o V2Bmp(Len32(Len(blob)), blob) : blob \in Blobs}

\* every kind of entry that ends the decode
V2BadEntries ==
    {V2Head(t, 1, <<>>) : t \in {0, 1, 8, 10, 23, 255}}
    \cup {V2Head(255, 0, EncText32(TextT)) \o Zeros(2),
          V2Head(2, 0, Len32(U16_MAX + 1)), V2Head(2, 0, Len32(U16_MAX)),
          V2Head(2, 0, Len32(U16_MAX + 1)) \o TextB \o TextT,
          V2Head(9, 1, <<>>) \o V2Bmp(Len32(U16_MAX + 1), <<>>),
          V2Head(9, 1, <<>>) \o V2Bmp(Len32(U16_MAX + 1), Zeros(3)),
          V2Head(9, 1, <<>>) \o V2Bmp(Len32(U16_MAX), <<>>),
          V2Head(3, 1, <<>>) \o Zeros(6) \o Le16Bytes(5) \o Points(2, 2)}

\* the entries that make up the longer files
V2CoreGood ==
    {V2Head(2, 0, EncText32(TextT)) \o V2Text(TextB), V2Head(3, 0, EncText32(TextT)) \o V2Line(1),
     V2Head(9, 1, <<>>) \o V2Bmp(Len32(12), SubSeq(Dib(BMP_DIB_SIZE, 8, 0), 1, 12))}
V2CoreBad == {V2Head(255, 1, <<>>), V2Head(9, 1, <<>>) \o V2Bmp(Len32(U16_MAX + 1), <<>>)}

\* sequences of at most n entries: good entries, then at most one bad entry
RECURSIVE EntrySeqs(_, _, _)
EntrySeqs(n, good, bad) ==
    IF n = 0 THEN {<<>>}
    ELSE {<<>>} \cup {<<e>> : e \in bad}
         \cup {<<g>> \o rest : g \in good, rest \in EntrySeqs(n - 1, good, bad)}

RECURSIVE Flatten(_)
Flatten(seqs) == IF seqs = <<>> THEN <<>> ELSE Head(seqs) \o Flatten(Tail(seqs))

\* version 2 headers: no name, a 5-byte name block, a name length under 4
V2Headers == {Le16Bytes(0), Le16Bytes(5) \o <<0, 0, 0, 0, 78>>, Le16Bytes(2) \o Zeros(4)}

\* files of type-2 text entries only: subtype, track name, the two doubles
\* and the label of each entry
V2TextParams ==
    {[subtype |-> 1, name |-> <<>>, lon |-> F64_13, lat |-> F64_52, label |-> TextBerlin],
     [subtype |-> 0, name |-> TextT, lon |-> F64_1, lat |-> F64_13, label |-> TextB]}
V2TextEntry(e) ==
    V2Head(2, e.subtype, IF e.subtype = 1 THEN <<>> ELSE EncText32(e.name))
        \o V2TextAt(e.lon, e.lat, e.label)
V2TextSeqs == UNION {[1..k -> V2TextParams] : k \in 0..MaxEntries}
V2TextFile(es) ==
    Magic(2) \o Le16Bytes(0) \o Flatten([i \in 1..Len(es) |-> V2TextEntry(es[i])])

\* files of several entries, read whole
V2LongFiles ==
    {Magic(2) \o Le16Bytes(0) \o Flatten(es) : es \in EntrySeqs(MaxEntries, V2CoreGood, V2CoreBad)}
    \cup {Magic(2) \o Le16Bytes(0) \o V2Head(9, 1, <<>>)
            \o V2Bmp(Len32(BMP_DIB_SIZE), Dib(BMP_DIB_SIZE, 8, 0)) \o bad : bad \in V2CoreBad}

\* files read whole and cut short at every byte
V2Files ==
    {V2TextFile(es) : es \in V2TextSeqs}
    \cup {Magic(2) \o Le16Bytes(0) \o e : e \in V2GoodEntries \cup V2BadEntries}
    \cup {Magic(2) \o h \o e : h \in V2Headers, e \in {<<>>, V2Head(2, 1, <<>>) \o V2Text(TextB)}}

V2Inputs == V2LongFiles \cup UNION {Prefixes(f) : f \in V2Files}

\* version 3/4: a record up to its type-specific payload
V34Common(entry_type, text, type1, object1, type2, object2) ==
    Le16Bytes(entry_type) \o Zeros(20) \o EncText16(text)
        \o Le16Bytes(type1) \o object1 \o Le16Bytes(type2) \o object2
V34Plain(entry_type, text) == V34Common(entry_type, text, 1, <<>>, 1, <<>>)

V34Point == F64_13 \o F64_52 \o F64_1
V34Text(label) == Zeros(20) \o V34Point \o EncText16(label)
V34Line(entry_type, n) ==
    Zeros(16) \o Le16Bytes(n) \o (IF entry_type = 4 THEN Zeros(2) ELSE <<>>) \o Points(n, 3)
V34Circle == Zeros(28) \o V34Point
V34Bmp(len32, blob) == Zeros(20) \o V34Point \o len32 \o Zeros(2) \o blob
V34Label == Zeros(28) \o EncText16(TextB) \o Zeros(4)

V34GoodRecords ==
    {V34Plain(2, <<>>) \o V34Text(TextB),
     V34Common(2, TextT, 0, EncText32(TextT), 0, EncText32(<<>>)) \o V34Text(TextB)}
    \cup {V34Plain(3, TextT) \o V34Line(3, n) : n \in 0..MaxPoints}
    \cup {V34Plain(t, <<>>) \o V34Line(t, 1) : t \in {4, 23}}
    \cup {V34Plain(t, <<>>) \o V34Circle : t \in {5, 6, 7}}
    \cup {V34Plain(9, <<>>) \o V34Bmp(Len32(Len(blob)), blob) : blob \in Blobs}

V34BadRecords ==
    {V34Plain(t, <<>>) : t \in {0, 1, 8, 10, 22, 255}}
    \cup {V34Plain(255, TextT) \o Zeros(2),
          V34Common(2, <<>>, 0, Len32(U16_MAX + 1), 1, <<>>),
          V34Common(2, TextT, 1, <<>>, 0, Len32(U16_MAX + 1)) \o TextB,
          V34Common(2, <<>>, 1, <<>>, 0, Len32(U16_MAX)),
          V34Plain(9, <<>>) \o V34Bmp(Len32(U16_MAX + 1), <<>>),
          V34Plain(9, TextT) \o V34Bmp(Len32(U16_MAX + 1), Zeros(3)),
          V34Plain(9, <<>>) \o V34Bmp(Len32(U16_MAX), <<>>),
          V34Plain(3, <<>>) \o Zeros(16) \o Le16Bytes(5) \o Points(2, 3)}

V34CoreGood ==
    {V34Plain(2, <<>>) \o V34Text(TextB), V34Plain(3, TextT) \o V34Line(3, 1),
     V34Plain(9, <<>>) \o V34Bmp(Len32(12), SubSeq(Dib(BMP_DIB_SIZE, 8, 0), 1, 12))}
V34CoreBad == {V34Plain(255, <<>>), V34Plain(9, <<>>) \o V34Bmp(Len32(U16_MAX + 1), <<>>)}

\* a block: the header with its counts and map-name block, labels, records
V34Block(name_block, labels, records) ==
    Zeros(8) \o Len32(Len(labels)) \o Len32(Len(records)) \o EncText16(<<>>) \o Zeros(6)
        \o Le16Bytes(Len(name_block)) \o Zeros(4) \o name_block
        \o Flatten(labels) \o Flatten(records)

\* map-name blocks: none, a 4-byte sub-header and a name, a block under 4 bytes
V34NameBlocks == {<<>>, <<0, 0, 0, 0, 78>>, <<0, 0>>}

\* files of several records and of two blocks, read whole
V34LongFiles ==
    {Magic(3) \o V34Block(<<>>, <<>>, rs) : rs \in EntrySeqs(MaxEntries, V34CoreGood, V34CoreBad)}
    \cup {Magic(3) \o V34Block(<<>>, <<>>, <<r>>) \o Magic(3) \o V34Block(<<>>, <<>>, rs) :
            r \in V34CoreGood, rs \in EntrySeqs(MaxEntries - 1, V34CoreGood, V34CoreBad)}
    \cup {Magic(3) \o V34Block(<<>>, <<>>,
                <<V34Plain(9, <<>>) \o V34Bmp(Len32(BMP_DIB_SIZE), Dib(BMP_DIB_SIZE, 8, 0)), bad>>) :
            bad \in V34CoreBad}

\* files read whole and cut short at every byte
V34Files ==
    {Magic(3) \o V34Block(<<>>, <<>>, <<r>>) : r \in V34GoodRecords \cup V34BadRecords}
    \cup {Magic(4) \o V34Block(nb, ls, rs) :
            nb \in V34NameBlocks, ls \in {<<>>, <<V34Label>>, <<V34Label, V34Label>>},
            rs \in {<<>>, <<V34Plain(2, <<>>) \o V34Text(TextB)>>}}
    \cup {Magic(3) \o V34Block(<<>>, <<>>, <<V34Plain(3, TextT) \o V34Line(3, 1)>>)
            \o Magic(3) \o V34Block(<<>>, <<>>, <<V34Plain(2, <<>>) \o V34Text(TextB)>>)}
    \cup {Magic(3) \o Zeros(8) \o Len32(0) \o Le32Bytes([lo |-> 1, hi |-> 1]) \o Zeros(12)
            \o V34Plain(2, <<>>) \o V34Text(TextB)}

V34Inputs == V34LongFiles \cup UNION {Prefixes(f) : f \in V34Files}

\* files of text and line objects that all differ: two labels, two track
\* names, lines of one point and of MaxPoints points
OrderItems ==
    {[kind |-> "text", text |-> TextB, n |-> 0], [kind |-> "text", text |-> TextT, n |-> 0],
     [kind |-> "line", text |-> TextB, n |-> 1], [kind |-> "line", text |-> TextT, n |-> MaxPoints]}
OrderSeqs(k) == UNION {[1..j -> OrderItems] : j \in 0..k}
V2OrderEntry(e) ==
    IF e.kind = "text" THEN V2Head(2, 1, <<>>) \o V2Text(e.text)
    ELSE V2Head(3, 0, EncText32(e.text)) \o V2Line(e.n)
V34OrderRecord(e) ==
    IF e.kind = "text" THEN V34Plain(2, <<>>) \o V34Text(e.text)
    ELSE V34Plain(3, e.text) \o V34Line(3, e.n)
V2OrderFile(es) ==
    Magic(2) \o Le16Bytes(0) \o Flatten([i \in 1..Len(es) |-> V2OrderEntry(es[i])])
V34OrderFile(es, fs) ==
    Magic(3) \o V34Block(<<>>, <<>>, [i \in 1..Len(es) |-> V34OrderRecord(es[i])])
        \o Magic(3) \o V34Block(<<>>, <<>>, [i \in 1..Len(fs) |-> V34OrderRecord(fs[i])])
\* two blocks with 23 bytes that are not the magic between them, cut short
\* at every byte
V34SkipFiles ==
    {Magic(4) \o V34Block(<<>>, <<>>, <<>>) \o [i \in 1..MAGIC_SKIP |-> z]
        \o V34Block(<<>>, <<>>, <<V34Plain(2, <<>>) \o V34Text(TextT)>>) : z \in {0, 255}}

\* version 2 entries of every type with entry_subtype 0, 1 and 2, with and
\* without a track name
V2SubtypeBodies(t) ==
    IF t = 2 THEN {V2Text(TextB)}
    ELSE IF t \in {3, 4} THEN {V2Line(n) : n \in 0..MaxPoints}
    ELSE IF t = 9 THEN {V2Bmp(Len32(12), SubSeq(Dib(BMP_DIB_SIZE, 8, 0), 1, 12))}
    ELSE {V2Geom}
V2SubtypeEntry(t, st, name, body) ==
    V2Head(t, st, IF st = 1 THEN <<>> ELSE EncText32(name)) \o body
V2SubtypeFiles ==
    UNION {{Magic(2) \o Le16Bytes(0) \o V2SubtypeEntry(t, st, name, body)
                \o V2Head(5, 1, <<>>) \o V2Geom :
              st \in {0, 1, 2}, name \in {<<>>, TextT}, body \in V2SubtypeBodies(t)} :
           t \in {2, 3, 4, 5, 9}}

\* version 3/4 line records of the three types, named and not, the padding
\* field of type 0x04 not zero
V34PadRecord(t, text, n) ==
    V34Plain(t, text) \o Zeros(16) \o Le16Bytes(n) \o (IF t = 4 THEN <<7, 7>> ELSE <<>>)
        \o Points(n, 3)
V34PadFiles ==
    {Magic(3) \o V34Block(<<>>, <<>>, <<V34PadRecord(t, text, n)>>) :
        t \in {3, 4, 23}, text \in {<<>>, TextT}, n \in 0..MaxPoints}

\* blobs of 40 bytes whose header-size field is 0, 12, 41 and 65576, and
\* files with a bitmap entry or record of such a blob, then a text
OddBlobs ==
    {Le32Bytes(U32(size)) \o Zeros(36) : size \in {0, 12, 41}}
    \cup {Le32Bytes([lo |-> BMP_DIB_SIZE, hi |-> 1]) \o Zeros(36)}
V2BmpEntry(blob) == V2Head(9, 1, <<>>) \o V2Bmp(Len32(Len(blob)), blob)
V34BmpRecord(blob) == V34Plain(9, <<>>) \o V34Bmp(Len32(Len(blob)), blob)
OddBlobFiles ==
    {Magic(2) \o Le16Bytes(0) \o V2BmpEntry(blob) \o V2Head(2, 1, <<>>) \o V2Text(TextB) :
        blob \in OddBlobs}
    \cup {Magic(3) \o V34Block(<<>>, <<>>, <<V34BmpRecord(blob), V34Plain(2, <<>>) \o V34Text(TextB)>>) :
        blob \in OddBlobs}

\* files whose counts declare more than they hold: 65537 and 2^32 - 1 labels
\* or records with one of them there, 65535 line points with MaxPoints there
V34Counted(labels32, records32, body) ==
    Zeros(8) \o labels32 \o records32 \o EncText16(<<>>) \o Zeros(6) \o Le16Bytes(0)
        \o Zeros(4) \o body
HugeCounts == {[lo |-> 1, hi |-> 1], [lo |-> U16_MAX, hi |-> U16_MAX]}
OverdeclaredFiles ==
    {Magic(3) \o V34Counted(Le32Bytes(c), Len32(0), V34Label) : c \in HugeCounts}
    \cup {Magic(4) \o V34Counted(Len32(0), Le32Bytes(c), V34Plain(2, <<>>) \o V34Text(TextB)) :
            c \in HugeCounts}
    \cup {Magic(3) \o V34Block(<<>>, <<>>,
                <<V34Plain(3, TextT) \o Zeros(16) \o Le16Bytes(U16_MAX) \o Points(MaxPoints, 3)>>),
          Magic(2) \o Le16Bytes(0) \o V2Head(3, 1, <<>>) \o Zeros(6) \o Le16Bytes(U16_MAX)
              \o Points(MaxPoints, 2)}

OrderFiles ==
    {V2OrderFile(es) : es \in OrderSeqs(MaxEntries)}
    \cup {V34OrderFile(es, fs) : es \in OrderSeqs(MaxEntries), fs \in OrderSeqs(1)}

(***************************************************************************)
(* State.                                                                  *)
(***************************************************************************)
VARIABLES
    debug_level,    \* the static DEBUG_LEVEL
    fmt_debug,      \* GgvBinFormat.debug
    buf,            \* the input of the call in progress
    pc,             \* where the call in progress stands
    pos,            \* the cursor: bytes of buf consumed
    ver,            \* the version read() detected
    geodata,        \* the Geodata read() is filling
    label_count,    \* labels left in the block (u32)
    record_count,   \* records left in the block (u32)
    outcome,        \* what the call returned
    raised,         \* the errors raised so far in the call (history)
    diag,           \* the call has written a line guarded by a debug level
    txt,            \* Text Decoder on its own: payload and decoded texts
    bmp,            \* Bitmap Extractor on its own: blob and result
    seen,           \* a caller's record: an input and the first answers to it
    geo,            \* Geodata on its own: the calls made, the Geodata, its bounds
    ovl             \* key/value line parser on its own: line and result

format_vars == <<debug_level, fmt_debug>>
call_vars == <<buf, pc, pos, ver, geodata, label_count, record_count, outcome, raised, diag>>
unit_vars == <<txt, bmp, seen, geo, ovl>>
vars == <<debug_level, fmt_debug, buf, pc, pos, ver, geodata, label_count, record_count,
          outcome, raised, diag, txt, bmp, seen, geo, ovl>>

NoOutcome == [status |-> "none", value |-> <<>>, err |-> NoErr, version |-> <<>>]
NoGeodata == Geodata_new(0)
NoTxt == [payload |-> <<>>, text16 |-> <<>>, text32 |-> <<>>]
NoBmp == [blob |-> <<>>, before |-> NoGeodata, result |-> <<>>]
NoSeen == [input |-> <<>>, probe |-> <<>>, read |-> <<>>]
NoGeo == [calls |-> <<>>, g |-> NoGeodata, bounds |-> <<>>]
NoOvl == [line |-> <<>>, result |-> <<>>]

\* GgvBinFormat::new: set_debug(0), debug: 0; no call in progress
Init ==
    /\ debug_level = 0
    /\ fmt_debug = 0
    /\ buf = <<>>
    /\ pc = "idle"
    /\ pos = 0
    /\ ver = 0
    /\ geodata = NoGeodata
    /\ label_count = U32(0)
    /\ record_count = U32(0)
    /\ outcome = NoOutcome
    /\ raised = {}
    /\ txt = NoTxt
    /\ bmp = NoBmp
    /\ diag = FALSE
    /\ seen = NoSeen
    /\ geo = NoGeo
    /\ ovl = NoOvl

(***************************************************************************)
(* GgvBinFormat::probe and GgvBinFormat::read.                             *)
(***************************************************************************)
\* fn get_debug: the static DEBUG_LEVEL
get_debug == debug_level

\* the step writes a diagnostic line, or not, after those written before
Diag(written) == diag' = (diag \/ written)

\* Geodata::add_waypoint, add_route, add_track have run between g and h
Added(g, h) == h.waypoints # g.waypoints \/ h.routes # g.routes \/ h.tracks # g.tracks

\* anyhow!("reading ggv_bin failed (undhandled version)")
Unhandled == [level |-> "Unhandled", kind |-> "Version", message |-> <<>>]

\* the Err arms of read: the error with the detected version, no Geodata
ReadFailed(e, v) ==
    [status |-> IF e.level = "Panic" THEN "panic" ELSE "err", value |-> <<>>, err |-> e,
     version |-> <<v>>]

\* the Ok arm of read: the Geodata moves to the caller
ReadOk(g) == [status |-> "ok", value |-> <<g>>, err |-> NoErr, version |-> <<>>]

\* a step of the decode ended with `?` on a failure
Abort(r) ==
    /\ pc' = "done"
    /\ pos' = r.pos
    /\ outcome' = ReadFailed(r.err, ver)
    /\ raised' = raised \cup {r.err}

\* GgvBinFormat::probe
Probe(b) ==
    /\ pc = "idle"
    /\ buf' = b
    /\ pc' = "done"
    /\ outcome' = [status |-> "probe", value |-> <<ggv_bin_parse_magic(b).ok>>, err |-> NoErr,
                   version |-> <<>>]
    /\ UNCHANGED <<pos, ver, geodata, label_count, record_count, raised>>
    /\ UNCHANGED diag
    /\ UNCHANGED <<format_vars, unit_vars>>

\* a dispatch that takes an input without the magic for version 2
version_or_two(m) == IF m.ok THEN m.val[1] ELSE 2

\* the version read() dispatches on: 0 when the magic is not matched
version_or_zero(m) == IF m.ok THEN m.val[1] ELSE 0
detect_version(b) == version_or_zero(ggv_bin_parse_magic(b))

\* GgvBinFormat::read up to the dispatch on the version
ReadBegin(b) ==
    /\ pc = "idle"
    /\ buf' = b
    /\ geodata' = Geodata_new(fmt_debug)
    /\ ver' = detect_version(b)
    /\ raised' = {ggv_bin_parse_magic(b).err} \ {NoErr}
    /\ IF ver' = 2 THEN pc' = "v2" /\ outcome' = outcome
       ELSE IF ver' \in {3, 4} THEN pc' = "v34" /\ outcome' = outcome
       ELSE /\ pc' = "done"
            /\ outcome' = [status |-> "err", value |-> <<>>, err |-> Unhandled, version |-> <<>>]
    /\ UNCHANGED <<pos, label_count, record_count>>
    /\ UNCHANGED diag
    /\ UNCHANGED <<format_vars, unit_vars>>

\* a step of the decode that moves the cursor only
Advance(r, next) ==
    IF r.ok THEN pc' = next /\ pos' = r.pos /\ outcome' = outcome /\ raised' = raised
    ELSE Abort(r)

\* ggv_bin_read_v2 up to its loop: the magic, then the header
v2_head(b, overflow_checks) ==
    and_then(ggv_bin_parse_magic(b), LAMBDA m :
    ggv_bin_read_header_v2(b, m.pos, overflow_checks))

ReadV2Header ==
    /\ pc = "v2"
    /\ \E overflow_checks \in BOOLEAN :
          \E r \in {v2_head(buf, overflow_checks)} : Advance(r, "v2_loop")
    /\ UNCHANGED <<buf, ver, geodata, label_count, record_count>>
    /\ Diag(get_debug >= DEBUG_BIN /\ ggv_bin_parse_magic(buf).ok)
    /\ UNCHANGED <<format_vars, unit_vars>>

\* a step of the decode that moves the cursor and yields the Geodata
Emit(r) ==
    IF r.ok
    THEN /\ pc' = pc /\ pos' = r.pos /\ geodata' = r.val /\ outcome' = outcome
         /\ raised' = raised \cup ({r.err} \ {NoErr})
    ELSE Abort(r) /\ geodata' = geodata

\* one iteration of the loop of ggv_bin_read_v2
ReadV2Entry ==
    /\ pc = "v2_loop"
    /\ Remaining(buf, pos) > 0
    /\ \E r \in {v2_entry(buf, pos, geodata)} : Emit(r)
    /\ UNCHANGED <<buf, ver, label_count, record_count>>
    /\ Diag(get_debug >= DEBUG_BIN \/ (geodata.debug >= DEBUG_GEODATA /\ Added(geodata, geodata')))
    /\ UNCHANGED <<format_vars, unit_vars>>

\* the loop of a decoder ends: Ok, and read returns the Geodata
ReadFinish ==
    /\ pc \in {"v2_loop", "v34_loop"}
    /\ Remaining(buf, pos) = 0
    /\ pc' = "done"
    /\ outcome' = ReadOk(geodata)
    /\ UNCHANGED <<buf, pos, ver, geodata, label_count, record_count, raised>>
    /\ UNCHANGED diag
    /\ UNCHANGED <<format_vars, unit_vars>>

\* ggv_bin_read_v34 up to its loop: the magic
ReadV34Magic ==
    /\ pc = "v34"
    /\ \E r \in {ggv_bin_parse_magic(buf)} : Advance(r, "v34_loop")
    /\ UNCHANGED <<buf, ver, geodata, label_count, record_count>>
    /\ Diag(get_debug >= DEBUG_BIN /\ ggv_bin_parse_magic(buf).ok)
    /\ UNCHANGED <<format_vars, unit_vars>>

\* the counts of the block the header opens
BlockCounts(r) ==
    IF r.ok THEN label_count' = r.val[1] /\ record_count' = r.val[2]
    ELSE UNCHANGED <<label_count, record_count>>

\* the head of an iteration of the block loop: the block header
ReadV34Header ==
    /\ pc = "v34_loop"
    /\ Remaining(buf, pos) > 0
    /\ \E r \in {ggv_bin_read_header_v34(buf, pos)} : Advance(r, "v34_block") /\ BlockCounts(r)
    /\ UNCHANGED <<buf, ver, geodata>>
    /\ Diag(get_debug >= DEBUG_BIN /\ ggv_bin_read32(buf, pos + 8, "num labels").ok)
    /\ UNCHANGED <<format_vars, unit_vars>>

\* one more iteration of a counted loop is done, unless it failed
CountDown(r, count) == IF r.ok THEN U32Dec(count) ELSE count

\* one iteration of `for _ in 0..label_count`
ReadV34Label ==
    /\ pc = "v34_block"
    /\ ~U32IsZero(label_count)
    /\ \E r \in {ggv_bin_read_label_v34(buf, pos)} :
          Advance(r, "v34_block") /\ label_count' = CountDown(r, label_count)
    /\ UNCHANGED <<buf, ver, geodata, record_count>>
    /\ Diag(get_debug >= DEBUG_BIN)
    /\ UNCHANGED <<format_vars, unit_vars>>

\* one iteration of `for _ in 0..record_count`
ReadV34Record ==
    /\ pc = "v34_block"
    /\ U32IsZero(label_count)
    /\ ~U32IsZero(record_count)
    /\ \E r \in {ggv_bin_read_record_v34(buf, pos, geodata)} : Emit(r)
    /\ record_count' = IF pc' = "done" THEN record_count ELSE U32Dec(record_count)
    /\ UNCHANGED <<buf, ver, label_count>>
    /\ Diag(get_debug >= DEBUG_BIN \/ (geodata.debug >= DEBUG_GEODATA /\ Added(geodata, geodata')))
    /\ UNCHANGED <<format_vars, unit_vars>>

\* a skip of the 22 bytes of the magic window
skip_magic_window(b, p) == ggv_bin_read_bytes(b, p, MAGIC_WINDOW, "magicbytes")

\* ggv_bin_read_bytes(buf, 23, "magicbytes"): the bytes are not looked at
skip_magic(b, p) == ggv_bin_read_bytes(b, p, MAGIC_SKIP, "magicbytes")

\* the end of an iteration of the block loop: skip the next magic bytes
ReadV34Skip ==
    /\ pc = "v34_block"
    /\ U32IsZero(label_count)
    /\ U32IsZero(record_count)
    /\ IF Remaining(buf, pos) > 0
       THEN \E r \in {skip_magic(buf, pos)} : Advance(r, "v34_loop")
       ELSE pc' = "v34_loop" /\ pos' = pos /\ outcome' = outcome /\ raised' = raised
    /\ UNCHANGED <<buf, ver, geodata, label_count, record_count>>
    /\ Diag(get_debug >= DEBUG_BIN /\ Remaining(buf, pos) > 0)
    /\ UNCHANGED <<format_vars, unit_vars>>

\* the call is over: the caller takes the outcome, the locals are dropped
Return ==
    /\ pc = "done"
    /\ buf' = <<>>
    /\ pc' = "idle"
    /\ pos' = 0
    /\ ver' = 0
    /\ geodata' = NoGeodata
    /\ label_count' = U32(0)
    /\ record_count' = U32(0)
    /\ outcome' = NoOutcome
    /\ raised' = {}
    /\ diag' = FALSE
    /\ UNCHANGED <<format_vars, unit_vars>>

ReadInputs ==
    MagicInputs \cup V2Inputs \cup V34Inputs \cup OrderFiles
    \cup UNION {Prefixes(f) : f \in V34SkipFiles}
    \cup V2SubtypeFiles \cup V34PadFiles \cup OddBlobFiles \cup OverdeclaredFiles

Next ==
    \/ \E b \in MagicInputs : Probe(b)
    \/ \E b \in ReadInputs : ReadBegin(b)
    \/ ReadV2Header
    \/ ReadV2Entry
    \/ ReadV34Magic
    \/ ReadV34Header
    \/ ReadV34Label
    \/ ReadV34Record
    \/ ReadV34Skip
    \/ ReadFinish
    \/ Return

Spec == Init /\ [][Next]_vars

\* read runs on the caller's thread without waiting for anything: once it
\* is called, each step of the decode that can be taken is taken
Decode ==
    \/ ReadV2Header \/ ReadV2Entry \/ ReadV34Magic \/ ReadV34Header \/ ReadV34Label
    \/ ReadV34Record \/ ReadV34Skip \/ ReadFinish

\* the decodes of whole files, of files cut short and of files that
\* declare more than they hold
LiveInputs ==
    OverdeclaredFiles \cup OddBlobFiles \cup V34Files \cup {V2TextFile(es) : es \in V2TextSeqs}
    \cup UNION {Prefixes(f) : f \in OverdeclaredFiles}

NextLive ==
    \/ \E b \in LiveInputs : ReadBegin(b)
    \/ Decode
    \/ Return

SpecLive == Init /\ [][NextLive]_vars /\ WF_vars(Decode)

(***************************************************************************)
(* The debug level: a caller calls probe and read on one input again and   *)
(* again, sets the level with set_debug and constructs further             *)
(* GgvBinFormat values in between, and keeps the first answers it got.     *)
(***************************************************************************)
DebugLevels == 0..MaxDebug
DebugInputs == MagicInputs \cup V2LongFiles \cup V34LongFiles \cup V34Files

\* what the caller of read sees: the error with its version, or the
\* waypoints, routes, tracks and resources of the Geodata
Answer(o) ==
    [status |-> o.status, err |-> o.err, version |-> o.version,
     geodata |-> IF o.value = <<>> THEN <<>>
                 ELSE <<[waypoints |-> o.value[1].waypoints, routes |-> o.value[1].routes,
                         tracks |-> o.value[1].tracks, data |-> o.value[1].data]>>]

InitDebug ==
    /\ Init!1 /\ Init!2 /\ Init!3 /\ Init!4 /\ Init!5 /\ Init!6 /\ Init!7 /\ Init!8
    /\ Init!9 /\ Init!10 /\ Init!11 /\ Init!12 /\ Init!13 /\ Init!14
    /\ Init!16 /\ Init!17
    /\ \E b \in DebugInputs : seen = [NoSeen EXCEPT !.input = b]

\* Format::set_debug of GgvBinFormat: the static and the field
SetDebug(debug) ==
    /\ pc = "idle"
    /\ debug_level' = debug
    /\ fmt_debug' = debug
    /\ UNCHANGED <<call_vars, unit_vars>>

\* GgvBinFormat::new for another value: set_debug(0) resets the static; the
\* value in use keeps its field
NewFormat ==
    /\ pc = "idle"
    /\ debug_level' = 0
    /\ UNCHANGED <<fmt_debug, call_vars, unit_vars>>

\* the caller keeps the first answer of probe and of read, with whether
\* diagnostics were written and the levels of that call
Observe ==
    /\ pc = "done"
    /\ IF outcome.status = "probe"
       THEN seen.probe = <<>> /\ seen' = [seen EXCEPT !.probe = outcome.value]
       ELSE seen.read = <<>>
            /\ seen' = [seen EXCEPT !.read = <<[answer |-> Answer(outcome), diag |-> diag,
                                                levels |-> <<debug_level, fmt_debug>>]>>]
    /\ UNCHANGED <<format_vars, call_vars, txt, bmp, geo, ovl>>

NextDebug ==
    \/ \E debug \in DebugLevels : SetDebug(debug)
    \/ NewFormat
    \/ Probe(seen.input)
    \/ ReadBegin(seen.input)
    \/ ReadV2Header
    \/ ReadV2Entry
    \/ ReadV34Magic
    \/ ReadV34Header
    \/ ReadV34Label
    \/ ReadV34Record
    \/ ReadV34Skip
    \/ ReadFinish
    \/ Observe
    \/ Return

SpecDebug == InitDebug /\ [][NextDebug]_vars

(***************************************************************************)
(* The Text Decoder on its own: ggv_bin_read_text16 and                    *)
(* ggv_bin_read_text32 applied to every payload over a small alphabet,     *)
(* length-prefixed and followed by one more byte.                          *)
(***************************************************************************)
\* 'A', space, CR, LF, NUL, a C0 control, NBSP
TextAlphabet == {65, SPACE, CR, LF, NUL, 1, 160}
TextPayloads == UNION {[1..n -> TextAlphabet] : n \in 0..MaxTextLen}

InitText ==
    /\ Init!1 /\ Init!2 /\ Init!3 /\ Init!4 /\ Init!5 /\ Init!6 /\ Init!7 /\ Init!8
    /\ Init!9 /\ Init!10 /\ Init!11 /\ Init!14 /\ Init!15
    /\ Init!16 /\ Init!17
    /\ \E payload \in TextPayloads : txt = [NoTxt EXCEPT !.payload = payload]
    /\ bmp = NoBmp

ReadText16 ==
    /\ txt.text16 = <<>>
    /\ txt' = [txt EXCEPT
                 !.text16 = <<ggv_bin_read_text16(EncText16(txt.payload) \o <<7>>, 0, "text")>>]
    /\ UNCHANGED <<format_vars, call_vars, bmp, seen, geo, ovl>>

ReadText32 ==
    /\ txt.text32 = <<>>
    /\ txt' = [txt EXCEPT
                 !.text32 = <<ggv_bin_read_text32(EncText32(txt.payload) \o <<7>>, 0, "text")>>]
    /\ UNCHANGED <<format_vars, call_vars, bmp, seen, geo, ovl>>

NextText == ReadText16 \/ ReadText32

SpecText == InitText /\ [][NextText]_vars

(***************************************************************************)
(* The Bitmap Extractor on its own: ggv_bin_write_bitmap applied to every  *)
(* prefix of blobs with header sizes 40, 12 and 65576, with and without a  *)
(* colour table, on a Geodata with and without a resource.                 *)
(***************************************************************************)
BmpBlobs ==
    UNION {Prefixes(Dib(size, bpp, extra)) :
             size \in {BMP_DIB_SIZE, 12, U16_MAX + 1 + BMP_DIB_SIZE},
             bpp \in {0, 1, 8, 15, 16, 24, U16_MAX},
             extra \in {0, 3}}
BmpGeodata == {NoGeodata, add_data(NoGeodata, "bmp", BM)}

InitBitmap ==
    /\ Init!1 /\ Init!2 /\ Init!3 /\ Init!4 /\ Init!5 /\ Init!6 /\ Init!7 /\ Init!8
    /\ Init!9 /\ Init!10 /\ Init!11 /\ Init!14 /\ Init!15
    /\ Init!16 /\ Init!17
    /\ txt = NoTxt
    /\ \E blob \in BmpBlobs, g \in BmpGeodata : bmp = [NoBmp EXCEPT !.blob = blob, !.before = g]

WriteBitmap ==
    /\ bmp.result = <<>>
    /\ bmp' = [bmp EXCEPT !.result = <<ggv_bin_write_bitmap(bmp.blob, bmp.before)>>]
    /\ UNCHANGED <<format_vars, call_vars, txt, seen, geo, ovl>>

NextBitmap == WriteBitmap

SpecBitmap == InitBitmap /\ [][NextBitmap]_vars

(***************************************************************************)
(* ggv_ovl.rs: the key/value line of the ASCII overlay format.             *)
(***************************************************************************)
\* the number of bytes of b from the cursor on that are in the set
RECURSIVE run(_, _, _)
run(b, p, set) == IF p < Len(b) /\ b[p + 1] \in set THEN 1 + run(b, p + 1, set) ELSE 0

\* nom::bytes::complete::take_while(|c| c is in the set)
take_while(b, p, set) == Ok(p + run(b, p, set), SubSeq(b, p + 1, p + run(b, p, set)))

\* nom::character::complete::alphanumeric1: one or more of 0-9, A-Z, a-z
alphanumeric1(b, p) ==
    IF run(b, p, (48..57) \cup (65..90) \cup (97..122)) = 0
    THEN Fail(p, from_error_kind("Error", "AlphaNumeric"))
    ELSE take_while(b, p, (48..57) \cup (65..90) \cup (97..122))

\* nom::character::complete::space0: spaces and tabs
space0(b, p) == take_while(b, p, {SPACE, TAB})

\* nom::combinator::opt: an Error becomes None, nothing consumed
opt(b, p, r) == IF r.ok THEN r ELSE Ok(p, <<>>)

\* char::is_whitespace on the chars of a decoded Latin-1 string
WhiteSpace == (9..13) \cup {SPACE, 133, 160}

\* str::trim
RECURSIVE trim_start(_)
trim_start(s) == IF s # <<>> /\ s[1] \in WhiteSpace THEN trim_start(Tail(s)) ELSE s
RECURSIVE trim_end(_)
trim_end(s) ==
    IF s # <<>> /\ s[Len(s)] \in WhiteSpace THEN trim_end(SubSeq(s, 1, Len(s) - 1)) ELSE s
str_trim(s) == trim_end(trim_start(s))

\* a comment that takes its line end with it
ovl_comment_with_newline(b, p) ==
    and_then(tag(b, p, <<SEMICOLON>>), LAMBDA t :
    and_then(take_while(b, t.pos, (0..255) \ {LF}), LAMBDA c :
    take_while(b, c.pos, {LF})))

\* pair(tag(";"), take_while(|c| c != b'\n'))
ovl_comment(b, p) ==
    and_then(tag(b, p, <<SEMICOLON>>), LAMBDA t : take_while(b, t.pos, (0..255) \ {LF}))

\* ggv_ovl_parse_key_value: the value is <<key, val>>, pos where the
\* remainder begins
ggv_ovl_parse_key_value(i) ==
    and_then(alphanumeric1(i, 0), LAMBDA key :
    and_then(space0(i, key.pos), LAMBDA s1 :
    and_then(tag(i, s1.pos, <<EQUALS>>), LAMBDA eq :
    and_then(space0(i, eq.pos), LAMBDA s2 :
    and_then(take_while(i, s2.pos, (0..255) \ {LF, SEMICOLON}), LAMBDA val :
    and_then(opt(i, val.pos, ovl_comment(i, val.pos)), LAMBDA c :
    Ok(c.pos, <<str_trim(decode_latin1(key.val)), str_trim(decode_latin1(val.val))>>)))))))

\* lines "key [spaces] = [spaces] value [; comment]" and what follows them:
\* the value is a core between whitespace, the rest empty or from a newline on
OvlParts ==
    [key : {<<97>>, <<70, 48>>},
     s1 : {<<>>, <<SPACE>>, <<TAB, SPACE>>},
     s2 : {<<>>, <<SPACE>>},
     core : {<<>>, <<98>>, <<98, SPACE, EQUALS, 99>>},
     pad : {<<>>, <<SPACE>>, <<CR>>},
     comment : {<<>>, <<SEMICOLON>>, <<SEMICOLON, SPACE, 120, SEMICOLON, 121>>},
     rest : {<<>>, <<LF>>, <<LF, SPACE, SPACE>>, <<LF, 97, EQUALS, 98>>}]
OvlLine(parts) ==
    parts.key \o parts.s1 \o <<EQUALS>> \o parts.s2 \o parts.core \o parts.pad
        \o parts.comment \o parts.rest

\* and lines without a key, without '=', with the comment before the '='
OvlLines ==
    {OvlLine(parts) : parts \in OvlParts}
    \cup {<<>>, <<EQUALS, 98>>, <<97, SPACE, 98>>, <<97>>, <<97, SEMICOLON, EQUALS, 98>>}

InitOvl ==
    /\ Init!1 /\ Init!2 /\ Init!3 /\ Init!4 /\ Init!5 /\ Init!6 /\ Init!7 /\ Init!8
    /\ Init!9 /\ Init!10 /\ Init!11 /\ Init!12 /\ Init!13 /\ Init!14 /\ Init!15
    /\ Init!16
    /\ \E line \in OvlLines : ovl = [NoOvl EXCEPT !.line = line]

ParseKeyValue ==
    /\ ovl.result = <<>>
    /\ ovl' = [ovl EXCEPT !.result = <<ggv_ovl_parse_key_value(ovl.line)>>]
    /\ UNCHANGED <<format_vars, call_vars, txt, bmp, seen, geo>>

NextOvl == ParseKeyValue

SpecOvl == InitOvl /\ [][NextOvl]_vars

(***************************************************************************)
(* The Geodata on its own: up to MaxCalls calls of add_waypoint, add_route *)
(* and add_track on a new Geodata, and get_bounds after any of them.       *)
(* Coordinates are whole degrees.                                          *)
(***************************************************************************)
MaxCalls == 3

GeoWaypoints ==
    {with_lon(with_lat(Waypoint_new, lat), lon) : lat \in {-60, -10, 20}, lon \in {-100, 30}}
GeoPoint(lat, lon) == with_lon(with_lat(Waypoint_new, lat), lon)
GeoLists ==
    {WaypointList_new,
     wl_add_waypoint(WaypointList_new, GeoPoint(-10, 30)),
     wl_add_waypoint(wl_add_waypoint(WaypointList_new, GeoPoint(20, -100)), GeoPoint(-60, 30))}

InitGeodata ==
    /\ Init!1 /\ Init!2 /\ Init!3 /\ Init!4 /\ Init!5 /\ Init!6 /\ Init!7 /\ Init!8
    /\ Init!9 /\ Init!10 /\ Init!11 /\ Init!12 /\ Init!13 /\ Init!14 /\ Init!15
    /\ Init!17
    /\ geo = [NoGeo EXCEPT !.g = Geodata_new(0)]

\* a call on the Geodata: it is noted, and the bounds taken before are stale
Called(op, arg, g) ==
    /\ Len(geo.calls) < MaxCalls
    /\ geo' = [calls |-> Append(geo.calls, [op |-> op, arg |-> arg]), g |-> g, bounds |-> <<>>]
    /\ UNCHANGED <<format_vars, call_vars, txt, bmp, seen, ovl>>

AddWaypoint(wp) == Called("add_waypoint", wp, add_waypoint(geo.g, wp))
AddRoute(route) == Called("add_route", route, add_route(geo.g, route))
AddTrack(track) == Called("add_track", track, add_track(geo.g, track))

GetBounds ==
    /\ geo.bounds = <<>>
    /\ geo' = [geo EXCEPT !.bounds = <<get_bounds(geo.g)>>]
    /\ UNCHANGED <<format_vars, call_vars, txt, bmp, seen, ovl>>

NextGeodata ==
    \/ \E wp \in GeoWaypoints : AddWaypoint(wp)
    \/ \E route \in GeoLists : AddRoute(route)
    \/ \E track \in GeoLists : AddTrack(track)
    \/ GetBounds

SpecGeodata == InitGeodata /\ [][NextGeodata]_vars

(***************************************************************************)
(* Properties of probe and read (specification Spec).                      *)
(***************************************************************************)
\* "DOMGVCRD Ovlfile V" d ".0:" NUL, byte by byte
Signature(d) ==
    <<68, 79, 77, 71, 86, 67, 82, 68, 32, 79, 118, 108, 102, 105, 108, 101, 32, 86, d,
      46, 48, 58, 0>>

\* the first n bytes of b are there and are the first n bytes of the
\* signature with a version digit '2', '3' or '4'
SignatureMatch(b, n) ==
    /\ Len(b) >= n
    /\ \E d \in {50, 51, 52} : SubSeq(b, 1, n) = SubSeq(Signature(d), 1, n)

\* C1 (as amended): probe answers true if and only if the first 23 bytes of
\* the input are the signature "DOMGVCRD Ovlfile V", one digit of 2, 3, 4,
\* ".0:" and a NUL byte; the answer depends on the input alone.
C1_ProbeIffSignature ==
    outcome.status = "probe" => outcome.value = <<SignatureMatch(buf, 23)>>

\* C1 as stated: the first 22 bytes decide the answer.
C1_ProbeIffFirst22 ==
    outcome.status = "probe" => outcome.value = <<SignatureMatch(buf, 22)>>

\* probe has answered true on an input longer than the signature, and false
\* cases exist beside it (the answer is not constant)
C1_Witness ==
    /\ outcome.status = "probe"
    /\ outcome.value = <<TRUE>>
    /\ Len(buf) > 23

\* C2: read is all-or-nothing: a call that is over has returned either the
\* complete Geodata or an error, and with the error nothing of what the
\* entries before the failing one had emitted.
C2_AllOrNothing ==
    (pc = "done" /\ outcome.status # "probe") =>
        \/ outcome.status = "ok" /\ outcome.value = <<geodata>>
        \/ outcome.status = "err" /\ outcome.value = <<>>

\* what does hold of C2: a call that did not return the Geodata returned
\* nothing of it, however many entries had been emitted
C2_NoPartialResult ==
    (pc = "done" /\ outcome.status \in {"err", "panic"}) => outcome.value = <<>>

\* the little-endian u16 at offset o of b
U16At(b, o) == b[o + 1] + 256 * b[o + 2]

\* a primitive read of the given width at the cursor: all of it or a failure
\* with insufficient-data and the cursor where it was
ExactOrEof(r, width) ==
    IF Len(buf) - pos >= width
    THEN r.ok /\ r.pos = pos + width /\ r.pos <= Len(buf)
    ELSE ~r.ok /\ r.err.kind = "Eof" /\ r.pos = pos

C3_Primitives ==
    /\ pos <= Len(buf)
    /\ \A n \in 0..(Len(buf) - pos + 1) : ExactOrEof(ggv_bin_read_bytes(buf, pos, n, "n"), n)
    /\ ExactOrEof(ggv_bin_read16(buf, pos, "u16"), 2)
    /\ ExactOrEof(ggv_bin_read32(buf, pos, "u32"), 4)
    /\ ExactOrEof(ggv_bin_read_double(buf, pos, "f64"), 8)

\* at the cursor stands a version 2 line entry (type 3 or 4, subtype 1)
\* declaring more points than the bytes after the count hold
V2ShortLine ==
    /\ pc = "v2_loop"
    /\ Len(buf) - pos >= 16
    /\ U16At(buf, pos) \in {3, 4}
    /\ U16At(buf, pos + 6) = 1
    /\ Len(buf) - (pos + 16) < 16 * U16At(buf, pos + 14)

\* at the cursor stands a version 3/4 line record (type 0x03, 0x04 or 0x17,
\* empty text, no entry objects) declaring more points than the bytes after
\* the count (and the pad of a 0x04 record) hold
V34ShortLine ==
    /\ pc = "v34_block"
    /\ U32IsZero(label_count)
    /\ ~U32IsZero(record_count)
    /\ Len(buf) - pos >= 48
    /\ U16At(buf, pos) \in {3, 4, 23}
    /\ U16At(buf, pos + 22) = 0
    /\ U16At(buf, pos + 24) = 1
    /\ U16At(buf, pos + 26) = 1
    /\ Len(buf) - (pos + 46 + (IF U16At(buf, pos) = 4 THEN 2 ELSE 0))
          < 24 * U16At(buf, pos + 44)

FailsWithEofNoTrack ==
    /\ outcome'.status = "err"
    /\ outcome'.err.kind = "Eof"
    /\ outcome'.value = <<>>
    /\ geodata'.tracks = geodata.tracks
    /\ pos' <= Len(buf)

\* C3: no read goes past the end of the input: the cursor never exceeds the
\* input length, every primitive read at the cursor consumes exactly its
\* width or fails with insufficient-data, and a line entry declaring more
\* points than are present makes read fail with insufficient-data, no track
\* emitted.
C3_NoReadPastEnd ==
    /\ []C3_Primitives
    /\ [][(V2ShortLine \/ V34ShortLine) => FailsWithEofNoTrack]_vars

\* read failed with insufficient-data on a line entry declaring 5 points
\* with 2 present, after the cursor reached the last complete point
C3_Witness ==
    /\ pc = "done"
    /\ outcome.status = "err"
    /\ outcome.err.kind = "Eof"
    /\ ver = 2
    /\ Len(buf) = 73
    /\ U16At(buf, 25) = 3
    /\ U16At(buf, 39) = 5
    /\ pos = Len(buf)
    /\ geodata.tracks = <<>>

\* the little-endian u32 at offset o of b is above 65535, is 65535
Above65535At(b, o) == b[o + 3] # 0 \/ b[o + 4] # 0
Is65535At(b, o) == b[o + 1] = 255 /\ b[o + 2] = 255 /\ b[o + 3] = 0 /\ b[o + 4] = 0

\* the offsets of the 32-bit length fields of the entry at the cursor that
\* the decode reaches: the track name of a version 2 entry of subtype other
\* than 1 and the blob length of a version 2 bitmap entry; after the text of
\* a version 3/4 record, its first entry object, its second where there is
\* no first, and the blob length of a bitmap record without entry objects
V2LengthFields ==
    IF pc = "v2_loop" /\ Len(buf) - pos >= 8
    THEN (IF U16At(buf, pos + 6) # 1 THEN {pos + 8} ELSE {})
         \cup (IF U16At(buf, pos) = 9 /\ U16At(buf, pos + 6) = 1 THEN {pos + 32} ELSE {})
    ELSE {}

V34TextEnd == pos + 24 + U16At(buf, pos + 22)

V34LengthFields ==
    IF /\ pc = "v34_block" /\ U32IsZero(label_count) /\ ~U32IsZero(record_count)
       /\ Len(buf) - pos >= 24
       /\ Len(buf) - V34TextEnd >= 4
    THEN (IF U16At(buf, V34TextEnd) # 1 THEN {V34TextEnd + 2} ELSE {})
         \cup (IF U16At(buf, V34TextEnd) = 1 /\ U16At(buf, V34TextEnd + 2) # 1
               THEN {V34TextEnd + 4} ELSE {})
         \cup (IF /\ U16At(buf, V34TextEnd) = 1 /\ U16At(buf, V34TextEnd + 2) = 1
                  /\ U16At(buf, pos) = 9
               THEN {V34TextEnd + 48} ELSE {})
    ELSE {}

LengthFields == {o \in V2LengthFields \cup V34LengthFields : Len(buf) - o >= 4}

\* the step ends the call with field-too-large
TooLargeNext == outcome'.status = "err" /\ outcome'.err.kind = "TooLarge"

\* C4: a 32-bit length field above 65535 (a 32-bit text, the blob length of
\* a bitmap in version 2 and in version 3/4) ends the call with
\* field-too-large and the cursor right after the field, no byte of the
\* payload consumed, whatever follows the field; a length of exactly 65535
\* does not end it with field-too-large.
C4_LengthCeiling ==
    [][\A o \in LengthFields :
          /\ Above65535At(buf, o) =>
                TooLargeNext /\ outcome'.value = <<>> /\ pos' = o + 4
          /\ Is65535At(buf, o) => ~TooLargeNext]_vars

\* read rejected a length of 65536 with bytes left after the field
C4_Witness ==
    /\ pc = "done"
    /\ outcome.status = "err"
    /\ outcome.err.kind = "TooLarge"
    /\ pos >= 4
    /\ Le32(SubSeq(buf, pos - 3, pos)) = [lo |-> 0, hi |-> 1]
    /\ Len(buf) > pos

\* the entry at the cursor has a type code outside the known set, and what
\* comes before its type-specific payload is present: the version 2 entry
\* fields and, for a subtype other than 1, a track name within the ceiling;
\* the version 3/4 common prefix without entry objects
V2UnknownEntry ==
    /\ pc = "v2_loop"
    /\ Len(buf) - pos >= 8
    /\ U16At(buf, pos) \notin {2, 3, 4, 5, 6, 7, 9}
    /\ \/ U16At(buf, pos + 6) = 1
       \/ /\ Len(buf) - pos >= 12
          /\ ~Above65535At(buf, pos + 8)
          /\ Len(buf) - (pos + 12) >= U16At(buf, pos + 8)

V34UnknownRecord ==
    /\ pc = "v34_block" /\ U32IsZero(label_count) /\ ~U32IsZero(record_count)
    /\ Len(buf) - pos >= 24
    /\ Len(buf) - V34TextEnd >= 4
    /\ U16At(buf, V34TextEnd) = 1
    /\ U16At(buf, V34TextEnd + 2) = 1
    /\ U16At(buf, pos) \notin {2, 3, 4, 23, 5, 6, 7, 9}

\* C5: an entry whose type code is outside the known set ends the call with
\* the unsupported-entry-type error and no Geodata, wherever it stands in
\* the stream.
C5_UnsupportedType ==
    [][(V2UnknownEntry \/ V34UnknownRecord) =>
          /\ outcome'.status = "err"
          /\ outcome'.err.level = "Failure"
          /\ outcome'.err.kind = "Tag"
          /\ outcome'.value = <<>>]_vars

\* read returned the unsupported-entry-type error on an entry that follows
\* an entry which had emitted a waypoint or a track
C5_Witness ==
    /\ pc = "done"
    /\ outcome.status = "err"
    /\ outcome.err.level = "Failure"
    /\ outcome.err.kind = "Tag"
    /\ outcome.value = <<>>
    /\ U16At(buf, pos - 8) = 255
    /\ geodata.tracks # <<>> \/ geodata.waypoints[1].waypoints # <<>>

\* C6: every insufficient-data, literal-mismatch, field-too-large or
\* unsupported-entry-type condition raised during a call, the Bitmap
\* Extractor's included, makes read return an error: a call in which one
\* was raised never ends with the Geodata returned.
C6_EveryConditionFatal ==
    (pc = "done" /\ \E e \in raised : e.kind \in {"Eof", "Tag", "TooLarge"}) =>
        outcome.status = "err" /\ outcome.value = <<>>

\* the Waypoint of a type-2 entry: the second double as latitude, the first
\* as longitude, the label as name, no elevation
TextWaypoint(e) ==
    [latitude |-> e.lat, longitude |-> e.lon, elevation |-> NAN, name |-> e.label]

\* C7: a version 2 file (magic, name length 0) of type-2 text entries
\* decodes to a Geodata whose loose-waypoint list holds one Waypoint per
\* entry, in order: longitude the first double, latitude the second, name
\* the 16-bit label (not the track name), elevation unset; no track and no
\* route.
C7_V2TextWaypoints ==
    \A es \in V2TextSeqs :
        (pc = "done" /\ outcome.status # "probe" /\ buf = V2TextFile(es)) =>
            /\ outcome.status = "ok"
            /\ outcome.value[1].waypoints =
                  <<[name |-> <<>>, waypoints |-> [i \in 1..Len(es) |-> TextWaypoint(es[i])]]>>
            /\ outcome.value[1].tracks = <<>>
            /\ outcome.value[1].routes = <<>>

\* read returned the Geodata of a file of two text entries, the second with
\* a track name
C7_Witness ==
    /\ pc = "done"
    /\ outcome.status = "ok"
    /\ \E es \in V2TextSeqs : Len(es) = 2 /\ es[2].subtype = 0 /\ buf = V2TextFile(es)
    /\ Len(outcome.value[1].waypoints[1].waypoints) = 2

\* the version 3/4 line records the files are made of: type, text, points
V34LineRecord(t, text, n) == V34Plain(t, text) \o V34Line(t, n)

\* the i-th point of a generated line as a Waypoint
LineWaypoint(i) ==
    [latitude |-> Coord(i, 74), longitude |-> Coord(i, 42), elevation |-> NAN, name |-> <<>>]

\* the record at the cursor is the line record (t, text, n), all of it
V34LineAt(t, text, n) ==
    /\ pc = "v34_block" /\ U32IsZero(label_count) /\ ~U32IsZero(record_count)
    /\ Len(buf) - pos >= Len(V34LineRecord(t, text, n))
    /\ SubSeq(buf, pos + 1, pos + Len(V34LineRecord(t, text, n))) = V34LineRecord(t, text, n)

\* C8: in version 3/4 a record of type 0x03, 0x04 or 0x17 that declares n
\* points and is fully present adds exactly one track of exactly n
\* waypoints in wire order, each with the first double of its triple as
\* longitude, the second as latitude and no elevation; the third double
\* goes nowhere, and nothing else of the Geodata changes.
C8_V34LineTrack ==
    [][\A t \in {3, 4, 23}, text \in {<<>>, TextT}, n \in 0..MaxPoints :
          V34LineAt(t, text, n) =>
             /\ pc' = "v34_block"
             /\ pos' = pos + Len(V34LineRecord(t, text, n))
             /\ Len(geodata'.tracks) = Len(geodata.tracks) + 1
             /\ SubSeq(geodata'.tracks, 1, Len(geodata.tracks)) = geodata.tracks
             /\ geodata'.tracks[Len(geodata'.tracks)].waypoints = [i \in 1..n |-> LineWaypoint(i)]
             /\ geodata'.waypoints = geodata.waypoints
             /\ geodata'.routes = geodata.routes
             /\ geodata'.data = geodata.data]_vars

\* read returned a Geodata whose only track is that of a 0x03 record of
\* MaxPoints points
C8_Witness ==
    /\ pc = "done"
    /\ outcome.status = "ok"
    /\ ver = 3
    /\ Len(outcome.value[1].tracks) = 1
    /\ outcome.value[1].tracks[1].waypoints = [i \in 1..MaxPoints |-> LineWaypoint(i)]

(***************************************************************************)
(* Properties of the Bitmap Extractor (specification SpecBitmap).          *)
(***************************************************************************)
\* the first four bytes of the blob are there and are 40, little-endian
HeaderSizeIs40(blob) ==
    Len(blob) >= 4 /\ blob[1] = 40 /\ blob[2] = 0 /\ blob[3] = 0 /\ blob[4] = 0

\* the extractor returned Ok and left the Geodata with one more resource, of
\* n bytes, after those it had
AttachedOfLength(n) ==
    /\ bmp.result[1].ok
    /\ Len(bmp.result[1].val.data) = Len(bmp.before.data) + 1
    /\ SubSeq(bmp.result[1].val.data, 1, Len(bmp.before.data)) = bmp.before.data
    /\ Len(bmp.result[1].val.data[Len(bmp.before.data) + 1].bytes) = n

\* C9 (as amended): whenever the header-size field of the blob is 40 and
\* the blob holds the whole 40-byte info header, the extractor attaches a
\* resource of the blob's length + 14 bytes.
C9_BitmapLength ==
    (bmp.result # <<>> /\ HeaderSizeIs40(bmp.blob) /\ Len(bmp.blob) >= 40) =>
        AttachedOfLength(Len(bmp.blob) + 14)

\* C9 as stated: whenever the header-size field of the blob is 40.
C9_BitmapLengthAnyBlob ==
    (bmp.result # <<>> /\ HeaderSizeIs40(bmp.blob)) => AttachedOfLength(Len(bmp.blob) + 14)

\* the extractor attached a resource for a blob of a header and pixel bytes,
\* to a Geodata that held a resource already
C9_Witness ==
    /\ bmp.result # <<>>
    /\ HeaderSizeIs40(bmp.blob)
    /\ Len(bmp.blob) = 43
    /\ bmp.before.data # <<>>
    /\ AttachedOfLength(57)

\* the four bytes of n, least significant first
Le32Of(n) == <<n % 256, (n \div 256) % 256, (n \div 65536) % 256, (n \div 16777216) % 256>>

\* n is a value of 32 bits
FitsU32(n) == n >= 0 /\ n \div 65536 <= U16_MAX

\* the bits-per-pixel field of a blob that holds the info header
PixelBits(blob) == blob[15] + 256 * blob[16]

\* the pixel-data offset of a file of bpp bits per pixel
PixelOffset(bpp) == 54 + (IF bpp < 16 THEN (2 ^ bpp) * 4 ELSE 0)

\* the file of a blob: signature, total size, two zero fields, pixel-data
\* offset, blob
BmpFileOf(blob) ==
    <<66, 77>> \o Le32Of(Len(blob) + 14) \o <<0, 0>> \o <<0, 0>>
        \o Le32Of(PixelOffset(PixelBits(blob))) \o blob

\* the sizes and offsets of every blob length and every bits-per-pixel value
\* of 16 bits are values of 32 bits, and so is what the code computes
NoOverflow ==
    /\ \A n \in 0..U16_MAX : FitsU32(n + 14)
    /\ \A bpp \in 0..U16_MAX : FitsU32(PixelOffset(bpp)) /\ bmp_offset(bpp) = PixelOffset(bpp)

\* C25: for a blob with header size 40 and the whole 40-byte info header,
\* the attached resource is "BM", the 32-bit blob length + 14, two 16-bit
\* zeros, the 32-bit offset 54 + (2^bpp * 4 below 16 bits per pixel), all
\* little-endian, and then the blob as it is; nothing of it overflows 32 bits.
C25_BitmapFileLayout ==
    /\ NoOverflow
    /\ (bmp.result # <<>> /\ HeaderSizeIs40(bmp.blob) /\ Len(bmp.blob) >= 40) =>
          /\ bmp.result[1].ok
          /\ bmp.result[1].val.data = Append(bmp.before.data, [name |-> "bmp", bytes |-> BmpFileOf(bmp.blob)])

\* the extractor attached the file of a blob of 15 bits per
\* pixel and three pixel bytes: offset 54 + 131072, bytes 36 00 02 00
C25_Witness ==
    /\ bmp.result # <<>>
    /\ HeaderSizeIs40(bmp.blob)
    /\ Len(bmp.blob) = 43
    /\ PixelBits(bmp.blob) = 15
    /\ bmp.result[1].ok
    /\ Len(bmp.result[1].val.data) = Len(bmp.before.data) + 1
    /\ SubSeq(bmp.result[1].val.data[Len(bmp.before.data) + 1].bytes, 1, 14)
          = <<66, 77, 57, 0, 0, 0, 0, 0, 0, 0, 54, 0, 2, 0>>

(***************************************************************************)
(* Properties of the Text Decoder (specification SpecText).                *)
(***************************************************************************)
\* char::is_control: the C0 controls, DEL and the C1 controls
IsControl(c) == c \in 0..31 \cup 127..159

\* a payload without CR, LF or any other control character
NoControl(payload) == \A i \in 1..Len(payload) : ~IsControl(payload[i])

\* s without its leading and trailing characters of ws
RECURSIVE TrimStart(_, _)
TrimStart(s, ws) == IF s # <<>> /\ Head(s) \in ws THEN TrimStart(Tail(s), ws) ELSE s
RECURSIVE TrimEnd(_, _)
TrimEnd(s, ws) ==
    IF s # <<>> /\ s[Len(s)] \in ws THEN TrimEnd(SubSeq(s, 1, Len(s) - 1), ws) ELSE s
Trim(s, ws) == TrimEnd(TrimStart(s, ws), ws)

\* s with every run of spaces made one space
RECURSIVE CollapseSpaces(_)
CollapseSpaces(s) ==
    IF Len(s) < 2 THEN s
    ELSE IF s[1] = 32 /\ s[2] = 32 THEN CollapseSpaces(Tail(s))
    ELSE <<s[1]>> \o CollapseSpaces(Tail(s))

\* both readers, where they have run, decoded the payload to text
DecodedAs(text) ==
    /\ txt.text16 # <<>> => txt.text16[1].ok /\ txt.text16[1].val = text
    /\ txt.text32 # <<>> => txt.text32[1].ok /\ txt.text32[1].val = text

\* C10 (as amended): for every payload without CR, LF or another control
\* character, the decoded text is the payload with its leading and trailing
\* spaces (U+0020) removed and every run of spaces inside it made one space.
C10_DecodeNormalized ==
    NoControl(txt.payload) => DecodedAs(CollapseSpaces(Trim(txt.payload, {32})))

\* C10 as stated: the payload with only its leading and trailing whitespace
\* (space and no-break space, the White_Space characters a payload without
\* controls can hold) removed.
C10_DecodeTrimOnly ==
    NoControl(txt.payload) => DecodedAs(Trim(txt.payload, {32, 160}))

\* both readers decoded " A A" to "A A"
C10_Witness ==
    /\ txt.payload = <<32, 65, 32, 65>>
    /\ txt.text16 # <<>> /\ txt.text16[1].val = <<65, 32, 65>>
    /\ txt.text32 # <<>> /\ txt.text32[1].val = <<65, 32, 65>>

\* a call of read is in progress or over
Reading == pc # "idle" /\ outcome.status # "probe"

\* C11: read on an input whose version is not 2, 3 or 4 (the magic does not
\* match) is over at once with an error: neither ggv_bin_read_v2 nor
\* ggv_bin_read_v34 is entered, no byte is consumed, and the Geodata is as
\* constructed, without waypoint, route, track or resource.
C11_UnhandledVersion ==
    (Reading /\ ~SignatureMatch(buf, 23)) =>
        /\ pc = "done"
        /\ ver = 0
        /\ pos = 0
        /\ outcome.status = "err"
        /\ outcome.err = Unhandled
        /\ outcome.value = <<>>
        /\ geodata = Geodata_new(fmt_debug)
        /\ geodata.waypoints = <<WaypointList_new>>
        /\ geodata.routes = <<>> /\ geodata.tracks = <<>> /\ geodata.data = <<>>

\* read has rejected an input that has the signature with the digit '5'
C11_Witness ==
    /\ Reading
    /\ buf = MagicBytes(53, NUL) \o <<7>>
    /\ outcome.status = "err"

\* the version the signature at the head of b names, 0 without a signature
DetectedVersion(b) == IF SignatureMatch(b, 23) THEN b[19] - 48 ELSE 0

\* C12: every error read returns carries the detected version: 2, 3 or 4
\* when the magic was recognised, 0 when it was not.
C12_ErrorCarriesVersion ==
    (Reading /\ outcome.status = "err") => outcome.version = <<DetectedVersion(buf)>>

\* what does hold of C12: the error of a decoder carries the version of the
\* signature; the error of an input without the signature carries none
C12_DecoderErrorCarriesVersion ==
    (Reading /\ outcome.status = "err") =>
        IF SignatureMatch(buf, 23) THEN outcome.version = <<buf[19] - 48>>
        ELSE outcome.version = <<>>

(***************************************************************************)
(* Properties of the debug level (specification SpecDebug).                *)
(***************************************************************************)
\* C13: the debug level never influences decoding: whatever the levels of
\* the static and of the GgvBinFormat in use are, set by set_debug or reset
\* by GgvBinFormat::new, probe gives the first answer it gave for the input,
\* and read gives the first outcome: the same error, or a Geodata with the
\* same waypoints, routes, tracks and resources.
C13_DebugNeverInfluences ==
    pc = "done" =>
        IF outcome.status = "probe"
        THEN seen.probe # <<>> => outcome.value = seen.probe
        ELSE seen.read # <<>> => Answer(outcome) = seen.read[1].answer

\* read has returned, with diagnostics written, the Geodata with a track it
\* returned first without any; and the same under a level reset by new
C13_Witness ==
    /\ pc = "done"
    /\ outcome.status = "ok"
    /\ outcome.value[1].tracks # <<>>
    /\ seen.read # <<>>
    /\ seen.read[1].levels = <<0, 0>>
    /\ ~seen.read[1].diag
    /\ diag
    /\ debug_level = 0
    /\ fmt_debug = MaxDebug

(***************************************************************************)
(* Order of the decoded objects (specification Spec).                      *)
(***************************************************************************)
IsText(e) == e.kind = "text"
IsLine(e) == e.kind = "line"

\* the Waypoint of a text object and the track of a line object of a file
OrderWaypoint(e) ==
    [latitude |-> F64_52, longitude |-> F64_13, elevation |-> NAN, name |-> e.text]
OrderTrack(e) == [name |-> e.text, waypoints |-> [i \in 1..e.n |-> LineWaypoint(i)]]

\* the Geodata holds the waypoints of the text objects of es and the tracks
\* of its line objects, each in the order of es
InOrderOf(g, es) ==
    /\ g.waypoints =
          <<[name |-> <<>>,
             waypoints |-> [i \in 1..Len(SelectSeq(es, IsText)) |->
                              OrderWaypoint(SelectSeq(es, IsText)[i])]]>>
    /\ g.tracks = [i \in 1..Len(SelectSeq(es, IsLine)) |-> OrderTrack(SelectSeq(es, IsLine)[i])]
    /\ g.routes = <<>>

\* C14: after a successful decode the waypoints, the tracks and the points
\* inside each track are in the order the file has them: across the entries
\* of a version 2 file and across the records and the blocks of a version
\* 3/4 file.
C14_EncounterOrder ==
    (Reading /\ pc = "done") =>
        \A es \in OrderSeqs(MaxEntries) :
            /\ buf = V2OrderFile(es) => outcome.status = "ok" /\ InOrderOf(outcome.value[1], es)
            /\ \A fs \in OrderSeqs(1) :
                  buf = V34OrderFile(es, fs) =>
                      outcome.status = "ok" /\ InOrderOf(outcome.value[1], es \o fs)

\* read returned the Geodata of a version 3/4 file of two blocks: a line of
\* MaxPoints points, then a text in the first, a line of one point with
\* another name in the second
C14_Witness ==
    /\ Reading /\ pc = "done"
    /\ outcome.status = "ok"
    /\ \E es \in OrderSeqs(MaxEntries), fs \in OrderSeqs(1) :
          /\ buf = V34OrderFile(es, fs)
          /\ Len(es) = MaxEntries /\ Len(fs) = 1
          /\ IsLine(es[1]) /\ es[1].n = MaxPoints /\ IsText(es[2])
          /\ IsLine(fs[1]) /\ fs[1].n = 1
    /\ Len(outcome.value[1].tracks) >= 2
    /\ Len(outcome.value[1].tracks[1].waypoints) = MaxPoints
    /\ outcome.value[1].tracks[1].name # outcome.value[1].tracks[Len(outcome.value[1].tracks)].name

\* no two spaces of the text are next to each other
NoDoubleSpace(text) == \A i \in 1..Len(text) - 1 : ~(text[i] = SPACE /\ text[i + 1] = SPACE)

\* every text a reader has returned satisfies P
EveryDecoded(P(_)) ==
    /\ (txt.text16 # <<>> /\ txt.text16[1].ok) => P(txt.text16[1].val)
    /\ (txt.text32 # <<>> /\ txt.text32[1].ok) => P(txt.text32[1].val)

\* a text without control character, CR or LF, without two consecutive
\* spaces and without a leading or trailing space
TextClean(text) == NoControl(text) /\ NoDoubleSpace(text) /\ Trim(text, {SPACE}) = text

\* C15: for every payload the text of both readers holds no control
\* character, no CR or LF, no two consecutive spaces and no leading or
\* trailing whitespace (read at its narrowest: U+0020).
C15_DecodedTextClean == EveryDecoded(TextClean)

\* what does hold of C15: the decoded text holds no control character, so
\* no CR and no LF
C15_DecodedNoControl == EveryDecoded(NoControl)

\* the bytes of s before its first NUL, all of s when it has none
FirstNul(s) ==
    IF \E i \in 1..Len(s) : s[i] = NUL
    THEN CHOOSE i \in 1..Len(s) : s[i] = NUL /\ \A j \in 1..(i - 1) : s[j] # NUL
    ELSE Len(s) + 1
BeforeNul(s) == SubSeq(s, 1, FirstNul(s) - 1)

\* C16: a text field with declared length L moves the cursor by the width
\* of its length field (2 or 4) plus L, wherever the first NUL of the
\* payload lies, and its text is the text of the bytes before the first NUL
\* alone.
C16_TextFieldAdvance ==
    /\ txt.text16 # <<>> =>
          /\ txt.text16[1].ok
          /\ txt.text16[1].pos = 2 + Len(txt.payload)
          /\ txt.text16[1].val =
                ggv_bin_read_text16(EncText16(BeforeNul(txt.payload)), 0, "text").val
    /\ txt.text32 # <<>> =>
          /\ txt.text32[1].ok
          /\ txt.text32[1].pos = 4 + Len(txt.payload)
          /\ txt.text32[1].val =
                ggv_bin_read_text32(EncText32(BeforeNul(txt.payload)), 0, "text").val

\* both readers have read the payload 'A' NUL 'A' to "A" and moved by 5 and
\* by 7 bytes
C16_Witness ==
    /\ txt.payload = <<65, NUL, 65>>
    /\ txt.text16 # <<>> /\ txt.text16[1].val = <<65>> /\ txt.text16[1].pos = 5
    /\ txt.text32 # <<>> /\ txt.text32[1].val = <<65>> /\ txt.text32[1].pos = 7

(***************************************************************************)
(* Properties of the failures and of the headers (specification Spec).     *)
(***************************************************************************)
\* read ended with the insufficient-data failure
EndedWithEof == Reading /\ outcome.status = "err" /\ outcome.err.kind = "Eof"

\* C17: every insufficient-data failure of a decode carries a non-empty
\* label, the name of the field that was being read.
C17_EofLabelled == EndedWithEof => outcome.err.message # <<>>

\* the failure came from the name block of the version 2 header: the length
\* at offset 23 is not 0 and the cursor is within the 4 bytes after it
InV2NameBlock == ver = 2 /\ U16At(buf, MAGIC_SKIP) > 0 /\ pos <= MAGIC_SKIP + 2 + 4

\* the failure came from a map-name block of 1 to 3 bytes of a version 3/4
\* block header: the cursor is behind the block, 6 bytes after its length
InV34NameBlock ==
    /\ ver \in {3, 4}
    /\ \E l \in 1..3 : pos >= MAGIC_SKIP + l + 6 /\ U16At(buf, pos - l - 6) = l

\* what does hold of C17: the insufficient-data failures without a label are
\* those of the two name blocks
C17_EofLabelledPastNameBlocks ==
    (EndedWithEof /\ outcome.err.message = <<>>) => InV2NameBlock \/ InV34NameBlock

\* the header step of version 2 went on to the entries, the cursor l bytes
\* behind the name length field
V2HeaderConsumed(l) == pc' = "v2_loop" /\ pos' = MAGIC_SKIP + 2 + l

\* the header step of version 2 ended the decode with an error
V2HeaderFailed == pc' = "done" /\ outcome'.status = "err"

\* C18: the header step of version 2 consumes, after the name length L,
\* no byte when L is 0 and exactly L bytes otherwise, or ends the decode
\* with an error; for L of 1, 2 or 3 the difference L - 4 neither wraps
\* around nor panics.
C18_V2HeaderLength ==
    [][pc = "v2" =>
          \/ V2HeaderFailed
          \/ Len(buf) >= MAGIC_SKIP + 2 /\ V2HeaderConsumed(U16At(buf, MAGIC_SKIP))]_vars

\* what does hold of C18: the same for a name length of 0 and of 4 or more;
\* with a length of 1, 2 or 3 the step ends with the arithmetic panic or,
\* the difference wrapped around, with an error for want of 65533 bytes
C18_V2HeaderLengthFrom4 ==
    [][pc = "v2" =>
          \/ V2HeaderFailed
          \/ /\ Len(buf) >= MAGIC_SKIP + 2
             /\ IF U16At(buf, MAGIC_SKIP) \in 1..3
                THEN pc' = "done" /\ outcome'.status = "panic"
                ELSE V2HeaderConsumed(U16At(buf, MAGIC_SKIP))]_vars

(***************************************************************************)
(* The layout of a version 3/4 record and block (specification Spec).      *)
(***************************************************************************)
\* the little-endian u16 at offset o of b, 0 where b ends before it
U16Within(b, o) == IF o + 2 <= Len(b) THEN U16At(b, o) ELSE 0

\* the offset behind a 16-bit text field at offset o
AfterText16(b, o) == o + 2 + U16Within(b, o)

\* the offset behind a type marker at offset o and, when the marker is not
\* 1, the 32-bit text field after it (of a length below 65536)
AfterObject(b, o) ==
    IF U16Within(b, o) # 1 THEN o + 2 + 4 + U16Within(b, o + 2) ELSE o + 2

\* the end of a common prefix at offset o that opens with n 16-bit fields
CommonPrefixEnd(b, o, n) == AfterObject(b, AfterObject(b, AfterText16(b, o + 2 * n)))

\* the cursor is at a record of a block
AtRecord ==
    /\ pc = "v34_block" /\ U32IsZero(label_count) /\ ~U32IsZero(record_count)

\* the common prefix of the record at the cursor, behind its entry_type
CommonAtCursor == ggv_bin_read_common_v34(buf, pos + 2)

\* C19 (as amended): the common prefix of a version 3/4 record, after
\* entry_type, is ten 16-bit fields (20 bytes), the 16-bit text field that
\* is the candidate name, and two type markers, each followed by a 32-bit
\* text field only when it is not 1.
C19_CommonPrefixTen ==
    (AtRecord /\ CommonAtCursor.ok) =>
        /\ CommonAtCursor.pos = CommonPrefixEnd(buf, pos + 2, 10)
        /\ CommonAtCursor.val = ggv_bin_read_text16(buf, pos + 2 + 20, "entry txt").val

\* C19 as stated: nine 16-bit fields (18 bytes) before the text field.
C19_CommonPrefixNine ==
    (AtRecord /\ CommonAtCursor.ok) =>
        /\ CommonAtCursor.pos = CommonPrefixEnd(buf, pos + 2, 9)
        /\ CommonAtCursor.val = ggv_bin_read_text16(buf, pos + 2 + 18, "entry txt").val

\* the cursor is at a record named "T" whose first marker is 0, with the
\* object text "T", and whose second marker is 0, with an empty object text
C19_Witness ==
    /\ AtRecord /\ CommonAtCursor.ok
    /\ CommonAtCursor.val = TextT
    /\ U16At(buf, pos + 2 + 20 + 2 + Len(TextT)) = 0
    /\ CommonAtCursor.pos = pos + 2 + 20 + (2 + Len(TextT)) + (2 + 4 + Len(TextT)) + (2 + 4)

\* the labels and the records of the block are consumed
AtBlockEnd == pc = "v34_block" /\ U32IsZero(label_count) /\ U32IsZero(record_count)

\* the decoder is at the head of its block loop, a block ahead or none
AtLoopHead(p) == pc' = "v34_loop" /\ pos' = p /\ outcome' = outcome /\ geodata' = geodata

\* the step of the block loop from its head: the decode succeeds when no
\* byte remains, and the header of the next block is read when one does
LoopHeadStep ==
    pc = "v34_loop" =>
        IF Remaining(buf, pos) = 0
        THEN pc' = "done" /\ outcome'.status = "ok" /\ outcome'.value = <<geodata>>
        ELSE \/ pc' = "v34_block" /\ pos' = ggv_bin_read_header_v34(buf, pos).pos
             \/ pc' = "done" /\ outcome'.status = "err"
                   /\ outcome'.err = ggv_bin_read_header_v34(buf, pos).err

\* the end of a block with 1 to 22 bytes left, or with none
BlockEndShort ==
    /\ (AtBlockEnd /\ Remaining(buf, pos) = 0) => AtLoopHead(pos)
    /\ (AtBlockEnd /\ Remaining(buf, pos) \in 1..22) =>
          /\ pc' = "done"
          /\ outcome'.status = "err"
          /\ outcome'.err.kind = "Eof"
          /\ outcome'.err.message = <<"magicbytes">>

\* the magic at the head of the file takes the decoder 23 bytes
MagicConsumes23 == pc = "v34" => pc' = "v34_loop" /\ pos' = 23

\* C20 (as amended): after the labels and records of a block, the decode
\* succeeds when no byte remains and fails with insufficient data when 1 to
\* 22 remain; when at least 23 remain, exactly 23 are skipped whatever they
\* hold, as many as the magic takes at the head of the file, and the loop
\* goes on: to the next block when a byte remains after the skip, to
\* success when none does.
C20_BlockSkip ==
    [][/\ BlockEndShort
       /\ (AtBlockEnd /\ Remaining(buf, pos) >= 23) => AtLoopHead(pos + 23)
       /\ LoopHeadStep
       /\ MagicConsumes23]_vars

\* C20 as stated: with at least 23 bytes left the skip is followed by the
\* decode of a next block, for which bytes remain after the skip.
C20_BlockSkipThenBlock ==
    [][/\ BlockEndShort
       /\ (AtBlockEnd /\ Remaining(buf, pos) >= 23) =>
             AtLoopHead(pos + 23) /\ Remaining(buf, pos') > 0
       /\ LoopHeadStep
       /\ MagicConsumes23]_vars

\* read returned the waypoint of a second block that 23 bytes of 255 set
\* off from the first
C20_Witness ==
    /\ Reading /\ pc = "done"
    /\ outcome.status = "ok"
    /\ ver = 4
    /\ Len(buf) > 76
    /\ SubSeq(buf, 54, 76) = [i \in 1..23 |-> 255]
    /\ Len(outcome.value[1].waypoints[1].waypoints) = 1

(***************************************************************************)
(* The entries of version 2 and the records of version 3/4, one by one     *)
(* (specification Spec).                                                   *)
(***************************************************************************)
\* the bytes e lie at the cursor, all of them
BytesAtCursor(e) ==
    Len(buf) - pos >= Len(e) /\ SubSeq(buf, pos + 1, pos + Len(e)) = e

\* the entry at the cursor of the version 2 loop is the one of type t and
\* subtype st, with the track name where st is not 1, and the body
V2EntryAt(t, st, name, body) ==
    pc = "v2_loop" /\ BytesAtCursor(V2SubtypeEntry(t, st, name, body))

\* the track of a line of n points under the name
LineTrack(name, n) == [name |-> name, waypoints |-> [i \in 1..n |-> LineWaypoint(i)]]

\* C21: in version 2 the 32-bit track name is read exactly when
\* entry_subtype is not 1, whatever the entry type: the entry ends 8 bytes
\* plus its body after its start when the subtype is 1, and the name field
\* more otherwise.  An entry of type 3 or 4 adds one track of line_points
\* waypoints, named by the track name, the empty name when there is none or
\* when it is empty.
C21_V2TrackName ==
    [][\A t \in {2, 3, 4, 5, 9}, st \in {0, 1, 2}, name \in {<<>>, TextT}, n \in 0..MaxPoints :
          \A body \in V2SubtypeBodies(t) :
              V2EntryAt(t, st, name, body) =>
                 /\ pc' = "v2_loop"
                 /\ pos' = pos + 8 + (IF st = 1 THEN 0 ELSE 4 + Len(name)) + Len(body)
                 /\ (t \in {3, 4} /\ body = V2Line(n)) =>
                       /\ geodata'.tracks =
                             Append(geodata.tracks, LineTrack(IF st = 1 THEN <<>> ELSE name, n))
                       /\ geodata'.waypoints = geodata.waypoints
                       /\ geodata'.routes = geodata.routes]_vars

\* read returned the track "T" of MaxPoints points of a type 4 entry with
\* entry_subtype 2
C21_Witness ==
    /\ Reading /\ pc = "done" /\ outcome.status = "ok"
    /\ buf = Magic(2) \o Le16Bytes(0) \o V2SubtypeEntry(4, 2, TextT, V2Line(MaxPoints))
                \o V2Head(5, 1, <<>>) \o V2Geom
    /\ outcome.value[1].tracks = <<LineTrack(TextT, MaxPoints)>>

\* C22: a version 3/4 line record consumes one 16-bit padding field between
\* the point count and the first point when its type is 0x04 and none when
\* it is 0x03 or 0x17; with all three types the track takes the candidate
\* name of the common prefix when that is not empty.
C22_V34LinePad ==
    [][\A t \in {3, 4, 23}, text \in {<<>>, TextT}, n \in 0..MaxPoints :
          (AtRecord /\ BytesAtCursor(V34PadRecord(t, text, n))) =>
             /\ pc' = "v34_block"
             /\ pos' = pos + 2 + (20 + 2 + Len(text) + 2 + 2) + 18
                           + (IF t = 4 THEN 2 ELSE 0) + 24 * n
             /\ geodata'.tracks = Append(geodata.tracks, LineTrack(text, n))]_vars

\* read returned the track "T" of MaxPoints points of a 0x04 record whose
\* padding field is 07 07
C22_Witness ==
    /\ Reading /\ pc = "done" /\ outcome.status = "ok"
    /\ buf = Magic(3) \o V34Block(<<>>, <<>>, <<V34PadRecord(4, TextT, MaxPoints)>>)
    /\ outcome.value[1].tracks = <<LineTrack(TextT, MaxPoints)>>

\* the loose waypoints, routes, tracks and resources of g and h are the same
SameObjects(g, h) ==
    /\ g.waypoints = h.waypoints /\ g.routes = h.routes
    /\ g.tracks = h.tracks /\ g.data = h.data

\* the entry or record at the cursor is a shape: type 5, 6 or 7
AtShape ==
    /\ pc = "v2_loop" \/ AtRecord
    /\ Remaining(buf, pos) >= 2
    /\ U16At(buf, pos) \in {5, 6, 7}

\* the cursor is at a label of a block
AtLabel == pc = "v34_block" /\ ~U32IsZero(label_count)

\* C23: a shape entry of version 2 (types 5, 6, 7), a shape record of
\* version 3/4 (0x05, 0x06, 0x07) and a label record of version 3/4 move
\* the cursor forward, or end the decode, and leave the loose waypoints,
\* routes, tracks and resources of the Geodata as they were.
C23_ShapesAndLabelsDiscarded ==
    [][(AtShape \/ AtLabel) =>
          /\ SameObjects(geodata, geodata')
          /\ \/ pc' = pc /\ pos' > pos
             \/ pc' = "done" /\ outcome'.status = "err"]_vars

\* read returned the one waypoint of a text entry that a type 5 shape
\* follows
C23_Witness ==
    /\ Reading /\ pc = "done" /\ outcome.status = "ok"
    /\ buf = Magic(2) \o Le16Bytes(0) \o V2SubtypeEntry(2, 1, <<>>, V2Text(TextB))
                \o V2Head(5, 1, <<>>) \o V2Geom
    /\ Len(outcome.value[1].waypoints[1].waypoints) = 1
    /\ outcome.value[1].tracks = <<>>

\* the entry or record at the cursor is a bitmap: type 9
AtBitmap ==
    /\ pc = "v2_loop" \/ AtRecord
    /\ Remaining(buf, pos) >= 2
    /\ U16At(buf, pos) = 9

\* the step went on in its loop, the cursor behind the entry e, and left
\* the Geodata as it was
SkippedWhole(e) == pc' = pc /\ pos' = pos + Len(e) /\ SameObjects(geodata, geodata')

\* C24: a bitmap entry (type 9) or record (0x09) adds no waypoint, route or
\* track; when the header-size field of its blob is not 40, it attaches no
\* resource either and the decode goes on behind the blob.
C24_BitmapFrame ==
    [][/\ AtBitmap =>
            /\ geodata'.waypoints = geodata.waypoints
            /\ geodata'.routes = geodata.routes
            /\ geodata'.tracks = geodata.tracks
       /\ \A blob \in OddBlobs :
            /\ (pc = "v2_loop" /\ BytesAtCursor(V2BmpEntry(blob))) => SkippedWhole(V2BmpEntry(blob))
            /\ (AtRecord /\ BytesAtCursor(V34BmpRecord(blob))) =>
                  SkippedWhole(V34BmpRecord(blob))]_vars

\* read returned the waypoint of the text record behind a bitmap record
\* whose blob declares a header of 65576 bytes, and no resource
C24_Witness ==
    /\ Reading /\ pc = "done" /\ outcome.status = "ok"
    /\ ver = 3
    /\ \E blob \in OddBlobs :
          /\ blob[3] = 1
          /\ buf = Magic(3) \o V34Block(<<>>, <<>>,
                      <<V34BmpRecord(blob), V34Plain(2, <<>>) \o V34Text(TextB)>>)
    /\ Len(outcome.value[1].waypoints[1].waypoints) = 1
    /\ outcome.value[1].data = <<>>

\* C26: during a decode the cursor only moves forward, within the input; it
\* moves by at least one byte in every iteration of the entry loop of
\* version 2 and of the block, label and record loops of versions 3 and 4.
C26_CursorForward ==
    [][/\ (Reading /\ pc # "done") =>
            /\ buf' = buf
            /\ Remaining(buf, pos') <= Remaining(buf, pos)
            /\ Remaining(buf, pos') >= 0
       /\ (pc = "v2_loop" /\ pc' = "v2_loop") => Remaining(buf, pos') < Remaining(buf, pos)
       /\ (pc = "v34_loop" /\ pc' = "v34_block") => Remaining(buf, pos') < Remaining(buf, pos)
       /\ (pc = "v34_block" /\ pc' = "v34_block") => Remaining(buf, pos') < Remaining(buf, pos)
       /\ (pc = "v34_block" /\ pc' = "v34_block") =>
              \/ label_count' = U32Dec(label_count) /\ record_count' = record_count
              \/ label_count' = label_count /\ record_count' = U32Dec(record_count)]_vars

\* the decode is between the two labels of a block: it is behind the magic
\* bytes, the block header of 30 bytes and the first label
C26_Witness ==
    /\ Reading /\ pc = "v34_block"
    /\ buf = Magic(4) \o V34Block(<<>>, <<V34Label, V34Label>>, <<V34Plain(2, <<>>) \o V34Text(TextB)>>)
    /\ label_count = U32(1)
    /\ pos = MAGIC_SKIP + 30 + Len(V34Label)
    /\ Remaining(buf, pos) > 0

LastCall == geo.calls'[Len(geo.calls')]

\* the calls of add_waypoint among the calls made
WaypointCalls(calls) == {i \in DOMAIN calls : calls[i].op = "add_waypoint"}

\* C28: after any calls of add_waypoint, add_route and add_track the Geodata
\* holds one loose list; each call appends its argument to the loose list,
\* the routes or the tracks and leaves the other two as they were, and
\* waypoints_len is the number of add_waypoint calls.
C28_GeodataCalls ==
    [][geo.calls' # geo.calls =>
          /\ Len(geo.g'.waypoints) = 1
          /\ geo.g'.waypoints[1].name = <<>>
          /\ waypoints_len(geo.g') = Cardinality(WaypointCalls(geo.calls'))
          /\ LastCall.op = "add_waypoint" =>
                /\ geo.g'.waypoints[1].waypoints = Append(geo.g.waypoints[1].waypoints, LastCall.arg)
                /\ geo.g'.routes = geo.g.routes /\ geo.g'.tracks = geo.g.tracks
          /\ LastCall.op = "add_route" =>
                /\ geo.g'.routes = Append(geo.g.routes, LastCall.arg)
                /\ geo.g'.waypoints = geo.g.waypoints /\ geo.g'.tracks = geo.g.tracks
          /\ LastCall.op = "add_track" =>
                /\ geo.g'.tracks = Append(geo.g.tracks, LastCall.arg)
                /\ geo.g'.waypoints = geo.g.waypoints /\ geo.g'.routes = geo.g.routes]_vars

\* a route, a waypoint and a track were added, in this order
C28_Witness ==
    /\ Len(geo.calls) = 3
    /\ geo.calls[1].op = "add_route" /\ geo.calls[2].op = "add_waypoint"
    /\ geo.calls[3].op = "add_track"
    /\ waypoints_len(geo.g) = 1
    /\ Len(geo.g.routes) = 1 /\ Len(geo.g.tracks) = 1
    /\ geo.g.routes[1] # geo.g.tracks[1]

\* the waypoints a Geodata contains: loose, in routes and in tracks
ListPoints(lists) == UNION {{lists[i].waypoints[j] : j \in DOMAIN lists[i].waypoints} : i \in DOMAIN lists}
Contained(g) == ListPoints(g.waypoints) \cup ListPoints(g.routes) \cup ListPoints(g.tracks)
Latitudes(g) == {w.latitude : w \in Contained(g)}
Longitudes(g) == {w.longitude : w \in Contained(g)}
Smallest(S) == CHOOSE x \in S : \A y \in S : x <= y
Largest(S) == CHOOSE x \in S : \A y \in S : x >= y

\* get_bounds was called and returned Some
BoundsTaken == geo.bounds # <<>> /\ geo.bounds[1] # <<>>
TakenMin == geo.bounds[1][1].min
TakenMax == geo.bounds[1][1].max

\* C29: get_bounds returns None exactly when the Geodata contains no
\* waypoint; otherwise min holds the smallest and max the largest latitude
\* and longitude of all contained waypoints, whatever the coordinates are.
C29_BoundsAreExtremes ==
    geo.bounds # <<>> =>
        /\ (geo.bounds[1] = <<>>) <=> (Contained(geo.g) = {})
        /\ BoundsTaken =>
              /\ TakenMin.latitude = Smallest(Latitudes(geo.g))
              /\ TakenMin.longitude = Smallest(Longitudes(geo.g))
              /\ TakenMax.latitude = Largest(Latitudes(geo.g))
              /\ TakenMax.longitude = Largest(Longitudes(geo.g))

\* what get_bounds does return: None exactly when there is no waypoint; the
\* extremes, except that max.latitude is never below MIN_LAT
C29_BoundsFromZeroLatitude ==
    geo.bounds # <<>> =>
        /\ (geo.bounds[1] = <<>>) <=> (Contained(geo.g) = {})
        /\ BoundsTaken =>
              /\ TakenMin.latitude = Smallest(Latitudes(geo.g))
              /\ TakenMin.longitude = Smallest(Longitudes(geo.g))
              /\ TakenMax.latitude = Largest(Latitudes(geo.g) \cup {MIN_LAT})
              /\ TakenMax.longitude = Largest(Longitudes(geo.g))

\* get_bounds on a Geodata whose waypoints all lie south of the equator
C29_AllSouth ==
    /\ BoundsTaken
    /\ Largest(Latitudes(geo.g)) = -10
    /\ Cardinality(Contained(geo.g)) >= 2
    /\ TakenMax.latitude = MIN_LAT

(***************************************************************************)
(* Properties of the key/value line parser (specification SpecOvl).        *)
(***************************************************************************)
\* the input from where the parser stopped
OvlRemainder == SubSeq(ovl.line, ovl.result[1].pos + 1, Len(ovl.line))

\* C30: on a line "key [spaces] = [spaces] value [; comment]" the parser
\* returns the key, the value without the whitespace around it, and as
\* remainder the input from the newline that ends the line on (nothing when
\* the line ends the input); the comment is dropped.
C30_KeyValueLine ==
    ovl.result # <<>> =>
        \A parts \in OvlParts :
            ovl.line = OvlLine(parts) =>
                /\ ovl.result[1].ok
                /\ ovl.result[1].val = <<parts.key, parts.core>>
                /\ OvlRemainder = parts.rest

\* the parser returned F0 and "b =c" for the line "F0<tab> = b =c ; x;y"
\* and stopped at the newline that follows it
C30_Witness ==
    /\ ovl.result # <<>>
    /\ ovl.line = <<70, 48, 9, 32, 61, 32, 98, 32, 61, 99, 32, 59, 32, 120, 59, 121, 10, 32, 32>>
    /\ ovl.result[1].ok
    /\ ovl.result[1].val = <<(<<70, 48>>), (<<98, 32, 61, 99>>)>>
    /\ OvlRemainder = <<10, 32, 32>>

====
